---- MODULE Spec2Model ----
(***************************************************************************)
(* Client-side real-time reconciliation of the task manager front end.     *)
(*                                                                         *)
(* The specifications are:                                                  *)
(*   Spec      the project detail page (tasks collection, pagination,      *)
(*             task:* socket events, local create / delete, detail sheet   *)
(*             selection)                - src/app/projects/[id]/page.tsx  *)
(*   SpecRemote the same page restricted to REST page loads, remote        *)
(*             broadcasts and the sheet selection (no local mutation)      *)
(*   SpecLocal the same page with its local mutations, sheet closed        *)
(*   SpecSheet the task detail sheet and its comments collection           *)
(*                                       - src/unnamed/part_009            *)
(*   SpecList  the filterable "Load More" project list                     *)
(*                                       - src/unnamed/part_004            *)
(*   SpecCreate the page with the create dialog as shipped                 *)
(*                                       - src/unnamed/part_007            *)
(*   SpecView  the search box and the filteredTasks projection             *)
(*   SpecProject the project header: loadProject, updateProject and the    *)
(*             project:updated event                                       *)
(*   SpecConn  the shared socket connection, the session and the room      *)
(*             subscriptions of the hooks                                  *)
(*                          - src/lib/socket.ts, src/hooks/useSocket.ts    *)
(*   SpecFetch the useFetch hook and the session                           *)
(*                                       - src/unnamed/part_012            *)
(*   SpecComments the detail sheet with comment:created broadcasts         *)
(*   SpecMembers the project's member list: add, remove, member:* events   *)
(*   SpecNav   the project list with Previous / Next page buttons          *)
(*                                       - src/unnamed/part_003            *)
(*   SpecSearch the global search dialog - src/unnamed/part_008            *)
(* The backend (REST + socket server) is the environment: it is modelled   *)
(* from the API documents shipped with the repository.                     *)
(***************************************************************************)
EXTENDS Integers, Sequences, FiniteSets, TLC

\* ------------------------------------------------------------------ bounds
\* Page size sent as ?limit= (20 / 12 / 50 in the source, scaled down).
Limit == 1
\* Tasks that exist on the server when the page mounts (ids 1..InitTasks).
InitTasks == 2
\* Largest number of mutations (task creates, updates, deletes) the backend
\* performs after the page has mounted.
MaxEnvOps == 2
\* Largest number of loadTasks calls in flight at once.
MaxPending == 2
\* Largest length the tasks collection is allowed to grow to by "Load More".
MaxLen == InitTasks + 1

\* Projects stored by the backend (ids 1..NumProjects).
NumProjects == 3

\* null cursor (useState<string | null>(null))
NoCursor == 0

\* ------------------------------------------------------------ state
VARIABLES
  \* --- backend (environment)
  srvTasks,        \* set of task snapshots stored by the server
  nextId,          \* next task id (ids grow with creation time)
  socketQueue,     \* FIFO of events broadcast to the project room, undelivered
  \* --- ProjectDetailPage state
  tasks,           \* useState<Task[]>
  cursor,          \* useState<string | null>
  hasMore,         \* useState(false)
  isLoadingTasks,  \* useState(true)
  selectedTask,    \* useState<Task | null>
  isSheetOpen,     \* useState(false)
  locallyCreatedTaskIds,  \* useRef<Set<string>>
  timers,          \* pending setTimeout(..., 5000) callbacks, by task id
  hSelected,       \* selectedTask as captured by the subscribed socket callbacks
  pendingLoads,    \* loadTasks calls awaiting fetchData
  pendingCreates,  \* create-task POSTs awaiting their response
  pendingDeletes,  \* handleTaskDeleted calls awaiting fetchData
  createdIns,      \* ids inserted by handleTaskCreated / onTaskCreated (history)
  lastOp,          \* name of the handler that produced the current state (history)
  \* --- TaskDetailSheet state
  comments,        \* useState<Comment[]>
  isLoadingComments,  \* useState(false)
  pendingComments, \* loadComments calls awaiting fetchData
  \* --- ProjectsPage state (filterable list with "Load More")
  projects,        \* useState<Project[]>
  pCursor,         \* useState<string | null>
  pHasMore,        \* useState(false)
  isLoadingMore,   \* useState(false)
  filters,         \* useState<Filters>: the status filter
  fetchLoading,    \* isLoading of the page's useFetch
  pendingProjects, \* loadProjects calls awaiting fetchData
  resetFilter,     \* filter of the latest apply / reset (history)
  resetResolved,   \* the first-page load of the latest filter change or reset
                   \* has been applied and no "Load More" was asked since (history)
  \* --- session: AuthProvider, lib/socket.ts, useTaskUpdates / useCommentUpdates
  token,           \* the access_token cookie is set
  user,            \* AuthProvider useState<User | null>: 0 is null
  profilePending,  \* the mount effect's /api/auth/profile fetch is in flight
  socket,          \* lib/socket.ts "let socket": 0 is null, else a connection
  connState,       \* state of every connection created by io(...)
  sendBuf,         \* emits buffered by a connection that is not connected
  rooms,           \* server side: the topics each connection has joined
  viewTopic,       \* per view: identifier of the mounted view, 0 if unmounted
  viewSock,        \* per view: connection its handlers are registered on, 0 if none
  openJoins,       \* per topic: joins emitted minus leaves emitted (history)
  \* --- useFetch
  fData,           \* useState<T | null>: 0 is null
  fError,          \* useState<string | null>: "" is null
  fLoading,        \* useState(false)
  fCalls,          \* fetchData calls awaiting fetch(...)
  fDone,           \* the last finished fetchData call: its outcome, what it
                   \* returned, the message the server sent, the socket
                   \* referenced when it finished, its attempts (history)
  \* --- ProjectDetailPage: search box and project header
  searchQuery,     \* useState("")
  filteredTasks,   \* useState<Task[]>
  project,         \* useState<Project | null>
  srvProject,      \* the project stored by the server
  pendingPatches,  \* updateProject calls awaiting fetchData
  pendingProject,  \* loadProject calls awaiting fetchData
  projectEvents,   \* FIFO of project:updated / member:* events, undelivered
  pendingMembers,  \* handleAddMember / handleRemoveMember awaiting fetchData
  \* --- comments on the server and their broadcasts
  srvCmts,         \* the comments stored by the server
  nextCmt,         \* id the server gives to the next comment
  cmtQueue,        \* FIFO of comment:created events emitted, undelivered
  \* --- ProjectsPage with page numbers (src/unnamed/part_003)
  navProjects,     \* useState<Project[]>([])
  currentPage,     \* useState(1)
  cursorHistory,   \* useState<(string | null)[]>([null]); element k+1 of the
                   \* sequence is element k of the array
  navHasMore,      \* useState(false)
  navFilters,      \* useState<Filters>(defaultFilters): the status
  navApplied,      \* the filter of the last first-page request (history)
  navPending,      \* the loadProjects call awaiting fetchData
  \* --- GlobalSearch (src/unnamed/part_008)
  gsOpen,          \* the open prop of the dialog
  gsQuery,         \* useState(""): 0 is a blank query
  gsResults,       \* useState(null): 0 is null, q the results for query q
  gsTimer,         \* the query of the pending debounce timer, 0 if none
  gsPending        \* the queries of the fetchData calls in flight

pageVars == <<srvTasks, nextId, socketQueue, tasks, cursor, hasMore,
              isLoadingTasks, selectedTask, isSheetOpen,
              locallyCreatedTaskIds, timers, hSelected, pendingLoads,
              pendingCreates, pendingDeletes, createdIns, lastOp>>

\* Every page variable but lastOp.
pageState == <<srvTasks, nextId, socketQueue, tasks, cursor, hasMore,
               isLoadingTasks, selectedTask, isSheetOpen,
               locallyCreatedTaskIds, timers, hSelected, pendingLoads,
               pendingCreates, pendingDeletes, createdIns>>

sheetVars == <<comments, isLoadingComments, pendingComments>>

listVars == <<projects, pCursor, pHasMore, isLoadingMore, filters, fetchLoading,
              pendingProjects, resetFilter, resetResolved>>

sessVars == <<token, user, profilePending, socket, connState, sendBuf, rooms,
              viewTopic, viewSock, openJoins>>

fetchVars == <<fData, fError, fLoading, fCalls, fDone>>

viewVars == <<searchQuery, filteredTasks>>

projVars == <<project, srvProject, pendingPatches, pendingProject,
              projectEvents, pendingMembers>>

cmtVars == <<srvCmts, nextCmt, cmtQueue>>

navVars == <<navProjects, currentPage, cursorHistory, navHasMore, navFilters,
             navApplied, navPending>>

gsVars == <<gsOpen, gsQuery, gsResults, gsTimer, gsPending>>

moreVars == <<navVars, gsVars>>

extVars == <<sessVars, fetchVars, viewVars, projVars, cmtVars, moreVars>>

vars == <<pageVars, sheetVars, listVars, extVars>>

\* ------------------------------------------------------------ helpers
NoTask == [id |-> 0, createdAt |-> 0, ver |-> 0]

MkTask(i) == [id |-> i, createdAt |-> i, ver |-> 0]

RemoveAt(s, i) == SubSeq(s, 1, i - 1) \o SubSeq(s, i + 1, Len(s))

Ids(s) == {s[i].id : i \in 1..Len(s)}

Count(s, id) == Cardinality({i \in 1..Len(s) : s[i].id = id})

RECURSIVE SortDesc(_)
SortDesc(S) ==
  IF S = {} THEN <<>>
  ELSE LET m == CHOOSE t \in S : \A u \in S : u.id <= t.id
       IN  <<m>> \o SortDesc(S \ {m})

\* The list endpoint: newest first (_id descending), cursor = id of the last
\* item of the previous page.
ServerPage(S, c) ==
  LET elig   == {t \in S : c = NoCursor \/ t.id < c}
      sorted == SortDesc(elig)
      n      == IF Len(sorted) < Limit THEN Len(sorted) ELSE Limit
      more   == Len(sorted) > Limit
  IN  [items |-> SubSeq(sorted, 1, n),
       hasMore |-> more,
       nextCursor |-> IF more THEN sorted[n].id ELSE NoCursor]

RECURSIVE SumVer(_)
SumVer(S) ==
  IF S = {} THEN 0
  ELSE LET t == CHOOSE x \in S : TRUE IN t.ver + SumVer(S \ {t})

\* Number of mutations the backend has performed so far: creates, deletes
\* and the updates of the tasks that still exist.
EnvOps ==
  (nextId - 1 - InitTasks) + ((nextId - 1) - Cardinality(srvTasks)) + SumVer(srvTasks)

NoResp == [items |-> <<>>, hasMore |-> FALSE, nextCursor |-> NoCursor]

\* ------------------------------------------------------------ Init
\* The page has mounted for an authenticated user: the mount effect has
\* called loadTasks() and the request is in flight.
InitPage ==
  /\ srvTasks = {MkTask(i) : i \in 1..InitTasks}
  /\ nextId = InitTasks + 1
  /\ socketQueue = <<>>
  /\ tasks = <<>>
  /\ cursor = NoCursor
  /\ hasMore = FALSE
  /\ isLoadingTasks = TRUE
  /\ selectedTask = NoTask
  /\ isSheetOpen = FALSE
  /\ locallyCreatedTaskIds = {}
  /\ timers = {}
  /\ hSelected = NoTask
  /\ pendingLoads = <<[nextCursor |-> NoCursor, handled |-> FALSE, resp |-> NoResp]>>
  /\ pendingCreates = <<>>
  /\ pendingDeletes = <<>>
  /\ createdIns = {}
  /\ lastOp = "mount"

\* The sheet is closed and has no task.
InitSheetView ==
  /\ comments = <<>>
  /\ isLoadingComments = FALSE
  /\ pendingComments = <<>>

\* The project list has mounted for an authenticated user: the mount effect has
\* called loadProjects(null, filters) with the default filters.
InitList ==
  /\ projects = <<>>
  /\ pCursor = NoCursor
  /\ pHasMore = FALSE
  /\ isLoadingMore = FALSE
  /\ filters = "ALL"
  /\ fetchLoading = TRUE
  /\ pendingProjects = <<[nextCursor |-> NoCursor, filter |-> "ALL", more |-> FALSE,
                          reset |-> FALSE, handled |-> FALSE, resp |-> NoResp]>>
  /\ resetFilter = "ALL"
  /\ resetResolved = FALSE

\* ------------------------------------------------------------ session state
\* Connections io(...) can create (lib/socket.ts creates one per call that finds
\* no connected socket).
MaxConns == 2
\* Identifiers a view can be mounted with (project ids, task ids).
NumIds == 2
\* Largest number of emits a connection buffers while it is not connected.
MaxBuf == 2
\* Largest number of fetchData calls in flight on one useFetch hook.
MaxFetch == 2

Conns == 1..MaxConns

\* The two hooks that subscribe to rooms: useTaskUpdates (project:{id}) in the
\* project page and useCommentUpdates (task:{id}) in the task detail sheet.
Views == {"project", "task"}

Topics == Views \X (1..NumIds)

\* The application has just been loaded in the browser: nobody is signed in yet;
\* when the cookie holds a token the AuthProvider's mount effect is fetching the
\* profile.
InitSess(tok) ==
  /\ token = tok
  /\ user = 0
  /\ profilePending = tok
  /\ socket = 0
  /\ connState = [c \in Conns |-> "unused"]
  /\ sendBuf = [c \in Conns |-> <<>>]
  /\ rooms = [c \in Conns |-> {}]
  /\ viewTopic = [v \in Views |-> 0]
  /\ viewSock = [v \in Views |-> 0]
  /\ openJoins = [t \in Topics |-> 0]

\* useFetch(): data null, error null, isLoading false, no call made.
InitFetch ==
  /\ fData = 0
  /\ fError = ""
  /\ fLoading = FALSE
  /\ fCalls = <<>>
  /\ fDone = [kind |-> "none", returned |-> 0, message |-> "", sock |-> 0,
              attempts |-> 0]

\* Search box empty, nothing displayed yet.
InitView ==
  /\ searchQuery = <<>>
  /\ filteredTasks = <<>>

\* Values a project field can take.
NumVals == 2

\* project === null
NoProject == [name |-> 0, status |-> 0, members |-> <<>>]

\* The project on the server when the page mounts: user 1 owns it, user 2 is
\* a member.
InitialProject == [name |-> 1, status |-> 1, members |-> <<1, 2>>]

\* The payload of a project room event.
ProjectEvent(type, p, m) == [type |-> type, project |-> p, member |-> m]

\* The project header: the mount effect has called loadProject().
InitProj ==
  /\ project = NoProject
  /\ srvProject = InitialProject
  /\ pendingPatches = <<>>
  /\ pendingProject = <<[why |-> "mount", handled |-> FALSE, ok |-> FALSE,
                         resp |-> NoProject]>>
  /\ projectEvents = <<>>
  /\ pendingMembers = <<>>

\* Every task has one comment, no comment event is in flight.
InitCmt ==
  /\ srvCmts = {[id |-> t, task |-> t] : t \in 1..InitTasks}
  /\ nextCmt = InitTasks + 1
  /\ cmtQueue = <<>>

\* An array slot that was never assigned (undefined).
Undef == -1

\* The paged project list has mounted for an authenticated user: the mount
\* effect has called loadProjects(null, filters).
InitNav ==
  /\ navProjects = <<>>
  /\ currentPage = 1
  /\ cursorHistory = <<NoCursor>>
  /\ navHasMore = FALSE
  /\ navFilters = "ALL"
  /\ navApplied = "ALL"
  /\ navPending = <<[cursor |-> NoCursor, filter |-> "ALL", page |-> 1,
                     then |-> 0, handled |-> FALSE, resp |-> NoResp]>>

\* The search dialog is closed.
InitGs ==
  /\ gsOpen = FALSE
  /\ gsQuery = 0
  /\ gsResults = 0
  /\ gsTimer = 0
  /\ gsPending = <<>>

InitMore == InitNav /\ InitGs

InitExt ==
  InitSess(TRUE) /\ InitFetch /\ InitView /\ InitProj /\ InitCmt /\ InitMore

Init == InitPage /\ InitSheetView /\ InitList /\ InitExt

\* ------------------------------------------------------------ backend
\* The server answers a list request (the response is then in flight).
ServerHandleLoad(i) ==
  /\ i \in 1..Len(pendingLoads)
  /\ ~pendingLoads[i].handled
  /\ pendingLoads' = [pendingLoads EXCEPT
        ![i] = [@ EXCEPT !.handled = TRUE,
                         !.resp = ServerPage(srvTasks, pendingLoads[i].nextCursor)]]
  /\ lastOp' = "server"
  /\ UNCHANGED <<sheetVars, listVars, extVars>>
  /\ UNCHANGED <<srvTasks, nextId, socketQueue, tasks, cursor, hasMore,
                 isLoadingTasks, selectedTask, isSheetOpen,
                 locallyCreatedTaskIds, timers, hSelected,
                 pendingCreates, pendingDeletes, createdIns>>

\* Another client creates a task: the server stores it and broadcasts it.
RemoteCreate ==
  /\ EnvOps < MaxEnvOps
  /\ srvTasks' = srvTasks \cup {MkTask(nextId)}
  /\ nextId' = nextId + 1
  /\ socketQueue' = Append(socketQueue, [type |-> "task:created", task |-> MkTask(nextId)])
  /\ lastOp' = "server"
  /\ UNCHANGED <<sheetVars, listVars, extVars>>
  /\ UNCHANGED <<tasks, cursor, hasMore, isLoadingTasks, selectedTask,
                 isSheetOpen, locallyCreatedTaskIds, timers, hSelected,
                 pendingLoads, pendingCreates, pendingDeletes, createdIns>>

\* A task is patched (by any client, this one included: the detail sheet only
\* issues the PATCH and relies on the broadcast).
RemoteUpdate(t) ==
  /\ t \in srvTasks
  /\ EnvOps < MaxEnvOps
  /\ LET u == [t EXCEPT !.ver = @ + 1] IN
       /\ srvTasks' = (srvTasks \ {t}) \cup {u}
       /\ socketQueue' = Append(socketQueue, [type |-> "task:updated", task |-> u])
  /\ lastOp' = "server"
  /\ UNCHANGED <<sheetVars, listVars, extVars>>
  /\ UNCHANGED <<nextId, tasks, cursor, hasMore, isLoadingTasks, selectedTask,
                 isSheetOpen, locallyCreatedTaskIds, timers, hSelected,
                 pendingLoads, pendingCreates, pendingDeletes, createdIns>>

\* Another client deletes a task.
RemoteDelete(t) ==
  /\ t \in srvTasks
  /\ EnvOps < MaxEnvOps
  /\ srvTasks' = srvTasks \ {t}
  /\ socketQueue' = Append(socketQueue, [type |-> "task:deleted", task |-> t])
  /\ lastOp' = "server"
  /\ UNCHANGED <<sheetVars, listVars, extVars>>
  /\ UNCHANGED <<nextId, tasks, cursor, hasMore, isLoadingTasks, selectedTask,
                 isSheetOpen, locallyCreatedTaskIds, timers, hSelected,
                 pendingLoads, pendingCreates, pendingDeletes, createdIns>>

\* ------------------------------------------------------------ loadTasks
\* Mutant: a load-more request puts the collection back into Loading.
ClickLoadMore_SetsLoading ==
  /\ ~isLoadingTasks
  /\ Len(tasks) > 0
  /\ hasMore
  /\ Len(pendingLoads) < MaxPending
  /\ Len(tasks) + Limit * (Len(pendingLoads) + 1) <= MaxLen
  /\ pendingLoads' = Append(pendingLoads,
        [nextCursor |-> cursor, handled |-> FALSE, resp |-> NoResp])
  /\ isLoadingTasks' = TRUE
  /\ lastOp' = "clickLoadMore"
  /\ UNCHANGED <<sheetVars, listVars, extVars>>
  /\ UNCHANGED <<srvTasks, nextId, socketQueue, tasks, cursor, hasMore,
                 selectedTask, isSheetOpen,
                 locallyCreatedTaskIds, timers, hSelected,
                 pendingCreates, pendingDeletes, createdIns>>

\* "Load More" button: rendered when the list is shown, non-empty and hasMore;
\* onClick={() => loadTasks(cursor)}.
ClickLoadMore ==
  /\ ~isLoadingTasks
  /\ Len(tasks) > 0
  /\ hasMore
  /\ Len(pendingLoads) < MaxPending
  /\ Len(tasks) + Limit * (Len(pendingLoads) + 1) <= MaxLen
  /\ pendingLoads' = Append(pendingLoads,
        [nextCursor |-> cursor, handled |-> FALSE, resp |-> NoResp])
  /\ lastOp' = "clickLoadMore"
  /\ UNCHANGED <<sheetVars, listVars, extVars>>
  /\ UNCHANGED <<srvTasks, nextId, socketQueue, tasks, cursor, hasMore,
                 isLoadingTasks, selectedTask, isSheetOpen,
                 locallyCreatedTaskIds, timers, hSelected,
                 pendingCreates, pendingDeletes, createdIns>>

\* Mutant: every successful load replaces the collection.
ApplyPage_AlwaysReplace(prev, nextCursor, resp) == resp.items

\* The part of loadTasks after the await, on response.success.
ApplyPage(prev, nextCursor, resp) ==
  IF nextCursor # NoCursor THEN prev \o resp.items ELSE resp.items

LoadTasksResolve(i) ==
  /\ i \in 1..Len(pendingLoads)
  /\ pendingLoads[i].handled
  /\ tasks' = ApplyPage(tasks, pendingLoads[i].nextCursor, pendingLoads[i].resp)
  /\ hasMore' = pendingLoads[i].resp.hasMore
  /\ cursor' = pendingLoads[i].resp.nextCursor
  /\ isLoadingTasks' = FALSE
  /\ createdIns' = IF pendingLoads[i].nextCursor = NoCursor THEN {} ELSE createdIns
  /\ pendingLoads' = RemoveAt(pendingLoads, i)
  /\ lastOp' = "loadTasksOk"
  /\ UNCHANGED <<sheetVars, listVars, extVars>>
  /\ UNCHANGED <<srvTasks, nextId, socketQueue, selectedTask, isSheetOpen,
                 locallyCreatedTaskIds, timers, hSelected,
                 pendingCreates, pendingDeletes>>

\* Mutant: a failed load empties the collection.
LoadTasksFail_ClearsTasks(i) ==
  /\ i \in 1..Len(pendingLoads)
  /\ ~pendingLoads[i].handled
  /\ isLoadingTasks' = FALSE
  /\ tasks' = <<>>
  /\ cursor' = NoCursor
  /\ hasMore' = FALSE
  /\ pendingLoads' = RemoveAt(pendingLoads, i)
  /\ lastOp' = "loadTasksFail"
  /\ UNCHANGED <<sheetVars, listVars, extVars>>
  /\ UNCHANGED <<srvTasks, nextId, socketQueue,
                 selectedTask, isSheetOpen, locallyCreatedTaskIds, timers,
                 hSelected, pendingCreates, pendingDeletes, createdIns>>

\* fetchData returned null (network failure or non-2xx): only the flag is cleared.
LoadTasksFail(i) ==
  /\ i \in 1..Len(pendingLoads)
  /\ ~pendingLoads[i].handled
  /\ isLoadingTasks' = FALSE
  /\ pendingLoads' = RemoveAt(pendingLoads, i)
  /\ lastOp' = "loadTasksFail"
  /\ UNCHANGED <<sheetVars, listVars, extVars>>
  /\ UNCHANGED <<srvTasks, nextId, socketQueue, tasks, cursor, hasMore,
                 selectedTask, isSheetOpen, locallyCreatedTaskIds, timers,
                 hSelected, pendingCreates, pendingDeletes, createdIns>>

\* ------------------------------------------------------------ local create
\* CreateTaskDialog.handleSubmit: POST /api/projects/{id}/tasks.  The server
\* stores the task, broadcasts task:created to the room (sender included) and
\* answers; response and broadcast then travel independently.
SubmitCreate ==
  /\ pendingCreates = <<>>
  /\ EnvOps < MaxEnvOps
  /\ srvTasks' = srvTasks \cup {MkTask(nextId)}
  /\ nextId' = nextId + 1
  /\ socketQueue' = Append(socketQueue, [type |-> "task:created", task |-> MkTask(nextId)])
  /\ pendingCreates' = Append(pendingCreates, MkTask(nextId))
  /\ lastOp' = "submitCreate"
  /\ UNCHANGED <<sheetVars, listVars, extVars>>
  /\ UNCHANGED <<tasks, cursor, hasMore, isLoadingTasks, selectedTask,
                 isSheetOpen, locallyCreatedTaskIds, timers, hSelected,
                 pendingLoads, pendingDeletes, createdIns>>

\* Mutant: the local insert also moves the cursor to the inserted task.
HandleTaskCreated_MovesCursor ==
  /\ pendingCreates # <<>>
  /\ LET t == Head(pendingCreates) IN
       /\ locallyCreatedTaskIds' = locallyCreatedTaskIds \cup {t.id}
       /\ tasks' = <<t>> \o tasks
       /\ timers' = timers \cup {t.id}
       /\ createdIns' = createdIns \cup {t.id}
       /\ cursor' = t.id
  /\ pendingCreates' = Tail(pendingCreates)
  /\ lastOp' = "handleTaskCreated"
  /\ UNCHANGED <<sheetVars, listVars, extVars>>
  /\ UNCHANGED <<srvTasks, nextId, socketQueue, hasMore,
                 isLoadingTasks, selectedTask, isSheetOpen, hSelected,
                 pendingLoads, pendingDeletes>>

\* handleTaskCreated(task), which the page hands to the dialog as its
\* onTaskCreated prop: what it does when a dialog calls it with the created
\* task on the POST response.  (The dialog of src/unnamed/part_007 does not call
\* it: see CreateResolve.)
LocalCreateApply(prev, t) == <<t>> \o prev

HandleTaskCreated ==
  /\ pendingCreates # <<>>
  /\ LET t == Head(pendingCreates) IN
       /\ locallyCreatedTaskIds' = locallyCreatedTaskIds \cup {t.id}
       /\ tasks' = LocalCreateApply(tasks, t)
       /\ timers' = timers \cup {t.id}
       /\ createdIns' = createdIns \cup {t.id}
  /\ pendingCreates' = Tail(pendingCreates)
  /\ lastOp' = "handleTaskCreated"
  /\ UNCHANGED <<sheetVars, listVars, extVars>>
  /\ UNCHANGED <<srvTasks, nextId, socketQueue, cursor, hasMore,
                 isLoadingTasks, selectedTask, isSheetOpen, hSelected,
                 pendingLoads, pendingDeletes>>

\* The setTimeout callback of handleTaskCreated, 5000 ms after the mark.
TimerFire(id) ==
  /\ id \in timers
  /\ timers' = timers \ {id}
  /\ locallyCreatedTaskIds' = locallyCreatedTaskIds \ {id}
  /\ lastOp' = "timer"
  /\ UNCHANGED <<sheetVars, listVars, extVars>>
  /\ UNCHANGED <<srvTasks, nextId, socketQueue, tasks, cursor, hasMore,
                 isLoadingTasks, selectedTask, isSheetOpen, hSelected,
                 pendingLoads, pendingCreates, pendingDeletes, createdIns>>

\* CreateTaskDialog.handleSubmit after its await fetchData: on success it
\* resets and closes the form and leaves the insertion to the broadcast; it does
\* not call onTaskCreated.
CreateResolve ==
  /\ pendingCreates # <<>>
  /\ pendingCreates' = Tail(pendingCreates)
  /\ lastOp' = "createResolve"
  /\ UNCHANGED <<sheetVars, listVars, extVars>>
  /\ UNCHANGED <<srvTasks, nextId, socketQueue, tasks, cursor, hasMore,
                 isLoadingTasks, selectedTask, isSheetOpen,
                 locallyCreatedTaskIds, timers, hSelected, pendingLoads,
                 pendingDeletes, createdIns>>

\* ------------------------------------------------------------ socket events
\* useTaskUpdates callbacks of the page; events are delivered in FIFO order.
\* Mutant: the origin mark is not consulted.
RemoteCreateApply_NoMark(prev, marks, t) ==
  IF t.id \in Ids(prev) THEN prev ELSE <<t>> \o prev

RemoteCreateApply(prev, marks, t) ==
  IF t.id \in marks THEN prev
  ELSE IF t.id \in Ids(prev) THEN prev
  ELSE <<t>> \o prev

OnTaskCreated ==
  /\ socketQueue # <<>>
  /\ Head(socketQueue).type = "task:created"
  /\ LET t == Head(socketQueue).task IN
       /\ tasks' = RemoteCreateApply(tasks, locallyCreatedTaskIds, t)
       /\ createdIns' = IF t.id \in locallyCreatedTaskIds \/ t.id \in Ids(tasks)
                        THEN createdIns ELSE createdIns \cup {t.id}
       /\ lastOp' = IF t.id \in locallyCreatedTaskIds THEN "onTaskCreated:suppressed"
                    ELSE IF t.id \in Ids(tasks) THEN "onTaskCreated:present"
                    ELSE "onTaskCreated:inserted"
  /\ socketQueue' = Tail(socketQueue)
  /\ UNCHANGED <<sheetVars, listVars, extVars>>
  /\ UNCHANGED <<srvTasks, nextId, cursor, hasMore, isLoadingTasks,
                 selectedTask, isSheetOpen, locallyCreatedTaskIds, timers,
                 hSelected, pendingLoads, pendingCreates, pendingDeletes>>

\* Mutant: the updated task is moved to the head of the list.
UpdateApply_MovesToHead(prev, u) ==
  IF u.id \in Ids(prev)
  THEN <<u>> \o SelectSeq(prev, LAMBDA t : t.id # u.id)
  ELSE prev

UpdateApply(prev, u) ==
  [i \in 1..Len(prev) |-> IF prev[i].id = u.id THEN u ELSE prev[i]]

UpdateSelected(current, u) ==
  IF current.id = u.id THEN u ELSE current

OnTaskUpdated ==
  /\ socketQueue # <<>>
  /\ Head(socketQueue).type = "task:updated"
  /\ tasks' = UpdateApply(tasks, Head(socketQueue).task)
  /\ selectedTask' = UpdateSelected(selectedTask, Head(socketQueue).task)
  /\ socketQueue' = Tail(socketQueue)
  /\ lastOp' = "onTaskUpdated"
  /\ UNCHANGED <<sheetVars, listVars, extVars>>
  /\ UNCHANGED <<srvTasks, nextId, cursor, hasMore, isLoadingTasks,
                 isSheetOpen, locallyCreatedTaskIds, timers, hSelected,
                 pendingLoads, pendingCreates, pendingDeletes, createdIns>>

\* Mutant: a delete for an id that is absent drops the first task.
DeleteApply_AbsentDropsHead(prev, id) ==
  IF id \in Ids(prev) THEN SelectSeq(prev, LAMBDA t : t.id # id)
  ELSE IF prev = <<>> THEN prev ELSE Tail(prev)

\* prev.filter(t => t._id !== taskId)
DeleteApply(prev, id) == SelectSeq(prev, LAMBDA t : t.id # id)

\* Mutant: the event removes the task but leaves the detail sheet alone.
OnTaskDeleted_KeepsSheet ==
  /\ socketQueue # <<>>
  /\ Head(socketQueue).type = "task:deleted"
  /\ tasks' = SelectSeq(tasks, LAMBDA t : t.id # Head(socketQueue).task.id)
  /\ socketQueue' = Tail(socketQueue)
  /\ lastOp' = "onTaskDeleted"
  /\ UNCHANGED <<sheetVars, listVars, extVars>>
  /\ UNCHANGED <<srvTasks, nextId, cursor, hasMore, isLoadingTasks,
                 isSheetOpen, selectedTask,
                 locallyCreatedTaskIds, timers, hSelected,
                 pendingLoads, pendingCreates, pendingDeletes, createdIns>>

\* selectedTask is read from the closure of the render that subscribed the
\* callback (hSelected).
OnTaskDeleted ==
  /\ socketQueue # <<>>
  /\ Head(socketQueue).type = "task:deleted"
  /\ LET id == Head(socketQueue).task.id IN
       /\ tasks' = DeleteApply(tasks, id)
       /\ IF hSelected.id = id
          THEN isSheetOpen' = FALSE /\ selectedTask' = NoTask
          ELSE UNCHANGED <<isSheetOpen, selectedTask>>
  /\ socketQueue' = Tail(socketQueue)
  /\ lastOp' = IF isSheetOpen /\ hSelected.id = Head(socketQueue).task.id
               THEN "onTaskDeleted:closed" ELSE "onTaskDeleted"
  /\ UNCHANGED <<sheetVars, listVars, extVars>>
  /\ UNCHANGED <<srvTasks, nextId, cursor, hasMore, isLoadingTasks,
                 locallyCreatedTaskIds, timers, hSelected,
                 pendingLoads, pendingCreates, pendingDeletes, createdIns>>

\* The effect of useTaskUpdates re-subscribes the callbacks of the latest
\* render; renders caused by socket events and promise continuations are
\* flushed asynchronously.
EffectFlush ==
  /\ hSelected # selectedTask
  /\ hSelected' = selectedTask
  /\ lastOp' = "effect"
  /\ UNCHANGED <<sheetVars, listVars, extVars>>
  /\ UNCHANGED <<srvTasks, nextId, socketQueue, tasks, cursor, hasMore,
                 isLoadingTasks, selectedTask, isSheetOpen,
                 locallyCreatedTaskIds, timers, pendingLoads,
                 pendingCreates, pendingDeletes, createdIns>>

\* ------------------------------------------------------------ local delete
\* TaskCard onDelete -> handleTaskDeleted(taskId): DELETE request; the server
\* deletes and broadcasts task:deleted, or answers 404 (fetchData -> null).
\* The continuation reads selectedTask from the closure of the call.
ClickDelete(t) ==
  /\ ~isLoadingTasks
  /\ ~isSheetOpen
  /\ t.id \in Ids(tasks)
  /\ pendingDeletes = <<>>
  /\ EnvOps < MaxEnvOps
  /\ LET onSrv == {s \in srvTasks : s.id = t.id} IN
       /\ srvTasks' = srvTasks \ onSrv
       /\ socketQueue' = IF onSrv = {} THEN socketQueue
                         ELSE Append(socketQueue, [type |-> "task:deleted", task |-> t])
       /\ pendingDeletes' = Append(pendingDeletes,
             [id |-> t.id, sel |-> selectedTask, ok |-> onSrv # {}])
  /\ lastOp' = "clickDelete"
  /\ UNCHANGED <<sheetVars, listVars, extVars>>
  /\ UNCHANGED <<nextId, tasks, cursor, hasMore, isLoadingTasks, selectedTask,
                 isSheetOpen, locallyCreatedTaskIds, timers, hSelected,
                 pendingLoads, pendingCreates, createdIns>>

HandleTaskDeleted ==
  /\ pendingDeletes # <<>>
  /\ LET d == Head(pendingDeletes) IN
       IF d.ok
       THEN /\ tasks' = DeleteApply(tasks, d.id)
            /\ IF d.sel.id = d.id
               THEN isSheetOpen' = FALSE /\ selectedTask' = NoTask
               ELSE UNCHANGED <<isSheetOpen, selectedTask>>
            /\ lastOp' = "handleTaskDeleted"
       ELSE /\ UNCHANGED <<tasks, isSheetOpen, selectedTask>>
            /\ lastOp' = "handleTaskDeleted:failed"
  /\ pendingDeletes' = Tail(pendingDeletes)
  /\ UNCHANGED <<sheetVars, listVars, extVars>>
  /\ UNCHANGED <<srvTasks, nextId, socketQueue, cursor, hasMore,
                 isLoadingTasks, locallyCreatedTaskIds, timers, hSelected,
                 pendingLoads, pendingCreates, createdIns>>

\* ------------------------------------------------------------ detail sheet
\* handleTaskClick(task): a click, rendered and re-subscribed synchronously.
\* The sheet is a modal overlay: cards are clickable only while it is closed.
HandleTaskClick(t) ==
  /\ ~isLoadingTasks
  /\ ~isSheetOpen
  /\ \E i \in 1..Len(tasks) : tasks[i] = t
  /\ selectedTask' = t
  /\ isSheetOpen' = TRUE
  /\ hSelected' = t
  /\ lastOp' = "handleTaskClick"
  /\ UNCHANGED <<sheetVars, listVars, extVars>>
  /\ UNCHANGED <<srvTasks, nextId, socketQueue, tasks, cursor, hasMore,
                 isLoadingTasks, locallyCreatedTaskIds, timers,
                 pendingLoads, pendingCreates, pendingDeletes, createdIns>>

\* onOpenChange={setIsSheetOpen} with false.
CloseSheet ==
  /\ isSheetOpen
  /\ isSheetOpen' = FALSE
  /\ hSelected' = selectedTask
  /\ lastOp' = "closeSheet"
  /\ UNCHANGED <<sheetVars, listVars, extVars>>
  /\ UNCHANGED <<srvTasks, nextId, socketQueue, tasks, cursor, hasMore,
                 isLoadingTasks, selectedTask, locallyCreatedTaskIds, timers,
                 pendingLoads, pendingCreates, pendingDeletes, createdIns>>

TaskDomain ==
  {[id |-> i, createdAt |-> i, ver |-> v] : i \in 1..(InitTasks + MaxEnvOps), v \in 0..MaxEnvOps}

\* ------------------------------------------------------------ specifications
\* The project detail page: every handler.
Next ==
  \/ \E i \in 1..MaxPending : ServerHandleLoad(i)
  \/ \E i \in 1..MaxPending : LoadTasksResolve(i)
  \/ \E i \in 1..MaxPending : LoadTasksFail(i)
  \/ ClickLoadMore
  \/ RemoteCreate
  \/ \E t \in srvTasks : RemoteUpdate(t)
  \/ \E t \in srvTasks : RemoteDelete(t)
  \/ SubmitCreate
  \/ HandleTaskCreated
  \/ \E id \in timers : TimerFire(id)
  \/ OnTaskCreated
  \/ OnTaskUpdated
  \/ OnTaskDeleted
  \/ EffectFlush
  \/ \E t \in TaskDomain : ClickDelete(t)
  \/ HandleTaskDeleted
  \/ \E t \in TaskDomain : HandleTaskClick(t)
  \/ CloseSheet

Spec == Init /\ [][Next]_vars

\* The page with its local mutations while the detail sheet stays closed.
NextLocal ==
  \/ \E i \in 1..MaxPending : ServerHandleLoad(i)
  \/ \E i \in 1..MaxPending : LoadTasksResolve(i)
  \/ \E i \in 1..MaxPending : LoadTasksFail(i)
  \/ ClickLoadMore
  \/ RemoteCreate
  \/ \E t \in srvTasks : RemoteUpdate(t)
  \/ \E t \in srvTasks : RemoteDelete(t)
  \/ SubmitCreate
  \/ HandleTaskCreated
  \/ \E id \in timers : TimerFire(id)
  \/ OnTaskCreated
  \/ OnTaskUpdated
  \/ OnTaskDeleted
  \/ \E t \in TaskDomain : ClickDelete(t)
  \/ HandleTaskDeleted

SpecLocal == Init /\ [][NextLocal]_vars

\* The page and its detail sheet under REST page loads and remote broadcasts
\* only (no local create or delete).
NextRemote ==
  \/ \E i \in 1..MaxPending : ServerHandleLoad(i)
  \/ \E i \in 1..MaxPending : LoadTasksResolve(i)
  \/ \E i \in 1..MaxPending : LoadTasksFail(i)
  \/ ClickLoadMore
  \/ RemoteCreate
  \/ \E t \in srvTasks : RemoteUpdate(t)
  \/ \E t \in srvTasks : RemoteDelete(t)
  \/ OnTaskCreated
  \/ OnTaskUpdated
  \/ OnTaskDeleted
  \/ EffectFlush
  \/ \E t \in TaskDomain : HandleTaskClick(t)
  \/ CloseSheet

SpecRemote == Init /\ [][NextRemote]_vars

\* ------------------------------------------------------------ TaskDetailSheet
\* GET /api/tasks/{id}/comments: the comments of one task (oldest first).
RECURSIVE SortAsc(_)
SortAsc(S) ==
  IF S = {} THEN <<>>
  ELSE LET m == CHOOSE x \in S : \A y \in S : x.id <= y.id
       IN  <<m>> \o SortAsc(S \ {m})

SrvComments(taskId) == SortAsc({c \in srvCmts : c.task = taskId})

\* The page is Ready with every task loaded.
InitSheet ==
  /\ srvTasks = {MkTask(i) : i \in 1..InitTasks}
  /\ nextId = InitTasks + 1
  /\ socketQueue = <<>>
  /\ tasks = SortDesc(srvTasks)
  /\ cursor = NoCursor
  /\ hasMore = FALSE
  /\ isLoadingTasks = FALSE
  /\ selectedTask = NoTask
  /\ isSheetOpen = FALSE
  /\ locallyCreatedTaskIds = {}
  /\ timers = {}
  /\ hSelected = NoTask
  /\ pendingLoads = <<>>
  /\ pendingCreates = <<>>
  /\ pendingDeletes = <<>>
  /\ createdIns = {}
  /\ lastOp = "loadTasksOk"
  /\ InitSheetView
  /\ InitList
  /\ InitExt

\* handleTaskClick makes the sheet's (open, task) props truthy: its effect calls
\* loadComments(), which sets isLoadingComments and awaits fetchData.
OpenTask(t) ==
  /\ ~isLoadingTasks
  /\ ~isSheetOpen
  /\ \E i \in 1..Len(tasks) : tasks[i] = t
  /\ Len(pendingComments) < MaxPending
  /\ selectedTask' = t
  /\ isSheetOpen' = TRUE
  /\ hSelected' = t
  /\ isLoadingComments' = TRUE
  /\ pendingComments' = Append(pendingComments,
        [task |-> t.id, live |-> TRUE, handled |-> FALSE, resp |-> <<>>])
  /\ lastOp' = "openTask"
  /\ UNCHANGED <<srvTasks, nextId, socketQueue, tasks, cursor, hasMore,
                 isLoadingTasks, locallyCreatedTaskIds, timers,
                 pendingLoads, pendingCreates, pendingDeletes, createdIns,
                 comments, listVars, extVars>>

\* onOpenChange(false): the sheet's effect takes its else branch and clears the
\* comments.  The loads issued for the view that ends are marked (history).
CloseTask ==
  /\ isSheetOpen
  /\ isSheetOpen' = FALSE
  /\ hSelected' = selectedTask
  /\ comments' = <<>>
  /\ pendingComments' = [i \in 1..Len(pendingComments) |->
                           [pendingComments[i] EXCEPT !.live = FALSE]]
  /\ lastOp' = "closeTask"
  /\ UNCHANGED <<srvTasks, nextId, socketQueue, tasks, cursor, hasMore,
                 isLoadingTasks, selectedTask, locallyCreatedTaskIds, timers,
                 pendingLoads, pendingCreates, pendingDeletes, createdIns,
                 isLoadingComments, listVars, extVars>>

ServerHandleComments(i) ==
  /\ i \in 1..Len(pendingComments)
  /\ ~pendingComments[i].handled
  /\ pendingComments' = [pendingComments EXCEPT
        ![i] = [@ EXCEPT !.handled = TRUE, !.resp = SrvComments(pendingComments[i].task)]]
  /\ lastOp' = "server"
  /\ UNCHANGED <<srvTasks, nextId, socketQueue, tasks, cursor, hasMore,
                 isLoadingTasks, selectedTask, isSheetOpen,
                 locallyCreatedTaskIds, timers, hSelected, pendingLoads,
                 pendingCreates, pendingDeletes, createdIns,
                 comments, isLoadingComments, listVars, extVars>>

\* The part of loadComments after the await, on response.success.
ApplyComments(prev, resp) == resp

LoadCommentsResolve(i) ==
  /\ i \in 1..Len(pendingComments)
  /\ pendingComments[i].handled
  /\ comments' = ApplyComments(comments, pendingComments[i].resp)
  /\ isLoadingComments' = FALSE
  /\ pendingComments' = RemoveAt(pendingComments, i)
  /\ lastOp' = IF pendingComments[i].live THEN "loadCommentsOk" ELSE "loadCommentsOk:stale"
  /\ UNCHANGED <<srvTasks, nextId, socketQueue, tasks, cursor, hasMore,
                 isLoadingTasks, selectedTask, isSheetOpen,
                 locallyCreatedTaskIds, timers, hSelected, pendingLoads,
                 pendingCreates, pendingDeletes, createdIns, listVars, extVars>>

LoadCommentsFail(i) ==
  /\ i \in 1..Len(pendingComments)
  /\ ~pendingComments[i].handled
  /\ isLoadingComments' = FALSE
  /\ pendingComments' = RemoveAt(pendingComments, i)
  /\ lastOp' = "loadCommentsFail"
  /\ UNCHANGED <<srvTasks, nextId, socketQueue, tasks, cursor, hasMore,
                 isLoadingTasks, selectedTask, isSheetOpen,
                 locallyCreatedTaskIds, timers, hSelected, pendingLoads,
                 pendingCreates, pendingDeletes, createdIns,
                 comments, listVars, extVars>>

NextSheet ==
  \/ \E t \in TaskDomain : OpenTask(t)
  \/ CloseTask
  \/ \E i \in 1..MaxPending : ServerHandleComments(i)
  \/ \E i \in 1..MaxPending : LoadCommentsResolve(i)
  \/ \E i \in 1..MaxPending : LoadCommentsFail(i)

SpecSheet == InitSheet /\ [][NextSheet]_vars

\* ------------------------------------------------------------ comment events
\* Comments created after the sheet's page has mounted (bound).
MaxCmts == 2

\* Undelivered comment:created events (bound).
MaxCmtQueue == 2

\* POST /api/tasks/{id}/comments by this user (handleAddComment only issues the
\* request) or by another client: the server stores the comment and emits
\* comment:created to the sockets in room task:{id}; this client is in that
\* room while its sheet is open on the task.
CommentCreated(t) ==
  /\ t \in 1..InitTasks
  /\ nextCmt <= InitTasks + MaxCmts
  /\ LET c == [id |-> nextCmt, task |-> t] IN
       /\ srvCmts' = srvCmts \cup {c}
       /\ IF isSheetOpen /\ selectedTask # NoTask /\ selectedTask.id = t
          THEN /\ Len(cmtQueue) < MaxCmtQueue
               /\ cmtQueue' = Append(cmtQueue, c)
          ELSE UNCHANGED cmtQueue
  /\ nextCmt' = nextCmt + 1
  /\ lastOp' = "server"
  /\ UNCHANGED <<pageState, sheetVars, listVars, sessVars, fetchVars,
                 viewVars, projVars, moreVars>>

\* onCommentCreated of the sheet: setComments(prev => [...prev, comment]).
CommentCreateApply(prev, c) == Append(prev, c)

\* A comment:created event reaches the socket: the handler registered by
\* useCommentUpdates runs while the sheet is open on a task, otherwise no
\* handler is registered and the event is dropped.
OnCommentCreated ==
  /\ cmtQueue # <<>>
  /\ cmtQueue' = Tail(cmtQueue)
  /\ IF isSheetOpen /\ selectedTask # NoTask
     THEN /\ comments' = CommentCreateApply(comments, Head(cmtQueue))
          /\ lastOp' = "onCommentCreated"
     ELSE /\ UNCHANGED comments
          /\ lastOp' = "onCommentCreated:nohandler"
  /\ UNCHANGED <<srvCmts, nextCmt, isLoadingComments, pendingComments>>
  /\ UNCHANGED <<pageState, listVars, sessVars, fetchVars, viewVars, projVars, moreVars>>

NextComments ==
  \/ \E t \in TaskDomain : OpenTask(t)
  \/ CloseTask
  \/ \E i \in 1..MaxPending : ServerHandleComments(i)
  \/ \E i \in 1..MaxPending : LoadCommentsResolve(i)
  \/ \E i \in 1..MaxPending : LoadCommentsFail(i)
  \/ \E t \in 1..InitTasks : CommentCreated(t)
  \/ OnCommentCreated

SpecComments == InitSheet /\ [][NextComments]_vars

\* ------------------------------------------------------------ ProjectsPage
\* The projects the user is a member of: odd ids ACTIVE, even ids ON_HOLD.
SrvProjects ==
  {[id |-> i, status |-> IF i % 2 = 1 THEN "ACTIVE" ELSE "ON_HOLD"] : i \in 1..NumProjects}

Statuses == {"ALL", "ACTIVE", "ON_HOLD"}

\* GET /api/projects?limit&cursor&status
ServerProjectsPage(f, c) ==
  ServerPage({p \in SrvProjects : f = "ALL" \/ p.status = f}, c)

\* The list and its filter controls are rendered unless the page shows its
\* loading screen: authLoading || (isLoading && projects.length === 0).
ListShown == ~(fetchLoading /\ Len(projects) = 0)

UnmarkReset(q) == [i \in 1..Len(q) |-> [q[i] EXCEPT !.reset = FALSE]]

ProjectLoad(c, f, more, reset) ==
  [nextCursor |-> c, filter |-> f, more |-> more, reset |-> reset,
   handled |-> FALSE, resp |-> NoResp]

\* The status <Select>: onValueChange sets filters (nothing is loaded).
SelectStatus(v) ==
  /\ ListShown
  /\ v \in Statuses
  /\ v # filters
  /\ filters' = v
  /\ lastOp' = "selectStatus"
  /\ UNCHANGED <<projects, pCursor, pHasMore, isLoadingMore, fetchLoading,
                 pendingProjects, resetFilter, resetResolved>>
  /\ UNCHANGED <<srvTasks, nextId, socketQueue, tasks, cursor, hasMore,
                 isLoadingTasks, selectedTask, isSheetOpen,
                 locallyCreatedTaskIds, timers, hSelected, pendingLoads,
                 pendingCreates, pendingDeletes, createdIns, sheetVars, extVars>>

HandleApplyFilters ==
  /\ ListShown
  /\ Len(pendingProjects) < MaxPending
  /\ projects' = <<>>
  /\ pCursor' = NoCursor
  /\ pendingProjects' = Append(UnmarkReset(pendingProjects),
                               ProjectLoad(NoCursor, filters, FALSE, filters # resetFilter))
  /\ fetchLoading' = TRUE
  /\ resetFilter' = filters
  /\ resetResolved' = FALSE
  /\ lastOp' = "handleApplyFilters"
  /\ UNCHANGED <<pHasMore, isLoadingMore, filters>>
  /\ UNCHANGED <<srvTasks, nextId, socketQueue, tasks, cursor, hasMore,
                 isLoadingTasks, selectedTask, isSheetOpen,
                 locallyCreatedTaskIds, timers, hSelected, pendingLoads,
                 pendingCreates, pendingDeletes, createdIns, sheetVars, extVars>>

\* "Reset all", rendered when activeFilterCount > 0.
HandleResetFilters ==
  /\ ListShown
  /\ filters # "ALL"
  /\ Len(pendingProjects) < MaxPending
  /\ filters' = "ALL"
  /\ projects' = <<>>
  /\ pCursor' = NoCursor
  /\ pendingProjects' = Append(UnmarkReset(pendingProjects),
                               ProjectLoad(NoCursor, "ALL", FALSE, TRUE))
  /\ fetchLoading' = TRUE
  /\ resetFilter' = "ALL"
  /\ resetResolved' = FALSE
  /\ lastOp' = "handleResetFilters"
  /\ UNCHANGED <<pHasMore, isLoadingMore>>
  /\ UNCHANGED <<srvTasks, nextId, socketQueue, tasks, cursor, hasMore,
                 isLoadingTasks, selectedTask, isSheetOpen,
                 locallyCreatedTaskIds, timers, hSelected, pendingLoads,
                 pendingCreates, pendingDeletes, createdIns, sheetVars, extVars>>

\* The X of the active status pill: as the reset, but the cursor is kept.
ClearStatusPill ==
  /\ ListShown
  /\ filters # "ALL"
  /\ Len(pendingProjects) < MaxPending
  /\ filters' = "ALL"
  /\ projects' = <<>>
  /\ pendingProjects' = Append(UnmarkReset(pendingProjects),
                               ProjectLoad(NoCursor, "ALL", FALSE, TRUE))
  /\ fetchLoading' = TRUE
  /\ resetFilter' = "ALL"
  /\ resetResolved' = FALSE
  /\ lastOp' = "clearStatusPill"
  /\ UNCHANGED <<pCursor, pHasMore, isLoadingMore>>
  /\ UNCHANGED <<srvTasks, nextId, socketQueue, tasks, cursor, hasMore,
                 isLoadingTasks, selectedTask, isSheetOpen,
                 locallyCreatedTaskIds, timers, hSelected, pendingLoads,
                 pendingCreates, pendingDeletes, createdIns, sheetVars, extVars>>

\* "Load More" (rendered with the grid when hasMore, disabled={isLoadingMore}):
\* setIsLoadingMore(true); await loadProjects(cursor) with the current filters.
HandleLoadMore ==
  /\ ListShown
  /\ Len(projects) > 0
  /\ pHasMore
  /\ ~isLoadingMore
  /\ Len(pendingProjects) < MaxPending
  /\ isLoadingMore' = TRUE
  /\ pendingProjects' = Append(pendingProjects,
                               ProjectLoad(pCursor, filters, TRUE, FALSE))
  /\ fetchLoading' = TRUE
  /\ resetResolved' = FALSE
  /\ lastOp' = "handleLoadMore"
  /\ UNCHANGED <<projects, pCursor, pHasMore, filters, resetFilter>>
  /\ UNCHANGED <<srvTasks, nextId, socketQueue, tasks, cursor, hasMore,
                 isLoadingTasks, selectedTask, isSheetOpen,
                 locallyCreatedTaskIds, timers, hSelected, pendingLoads,
                 pendingCreates, pendingDeletes, createdIns, sheetVars, extVars>>

ServerHandleProjects(i) ==
  /\ i \in 1..Len(pendingProjects)
  /\ ~pendingProjects[i].handled
  /\ pendingProjects' = [pendingProjects EXCEPT
        ![i] = [@ EXCEPT !.handled = TRUE,
                         !.resp = ServerProjectsPage(pendingProjects[i].filter,
                                                     pendingProjects[i].nextCursor)]]
  /\ lastOp' = "server"
  /\ UNCHANGED <<projects, pCursor, pHasMore, isLoadingMore, filters,
                 fetchLoading, resetFilter, resetResolved>>
  /\ UNCHANGED <<srvTasks, nextId, socketQueue, tasks, cursor, hasMore,
                 isLoadingTasks, selectedTask, isSheetOpen,
                 locallyCreatedTaskIds, timers, hSelected, pendingLoads,
                 pendingCreates, pendingDeletes, createdIns, sheetVars, extVars>>

\* The part of loadProjects after the await, on response.success; fetchData's
\* finally clears isLoading, and handleLoadMore's continuation isLoadingMore.
LoadProjectsResolve(i) ==
  /\ i \in 1..Len(pendingProjects)
  /\ pendingProjects[i].handled
  /\ projects' = ApplyPage(projects, pendingProjects[i].nextCursor, pendingProjects[i].resp)
  /\ pHasMore' = pendingProjects[i].resp.hasMore
  /\ pCursor' = pendingProjects[i].resp.nextCursor
  /\ fetchLoading' = FALSE
  /\ isLoadingMore' = IF pendingProjects[i].more THEN FALSE ELSE isLoadingMore
  /\ resetResolved' = IF pendingProjects[i].reset THEN TRUE ELSE resetResolved
  /\ pendingProjects' = RemoveAt(pendingProjects, i)
  /\ lastOp' = "loadProjectsOk"
  /\ UNCHANGED <<filters, resetFilter>>
  /\ UNCHANGED <<srvTasks, nextId, socketQueue, tasks, cursor, hasMore,
                 isLoadingTasks, selectedTask, isSheetOpen,
                 locallyCreatedTaskIds, timers, hSelected, pendingLoads,
                 pendingCreates, pendingDeletes, createdIns, sheetVars, extVars>>

LoadProjectsFail(i) ==
  /\ i \in 1..Len(pendingProjects)
  /\ ~pendingProjects[i].handled
  /\ fetchLoading' = FALSE
  /\ isLoadingMore' = IF pendingProjects[i].more THEN FALSE ELSE isLoadingMore
  /\ pendingProjects' = RemoveAt(pendingProjects, i)
  /\ lastOp' = "loadProjectsFail"
  /\ UNCHANGED <<projects, pCursor, pHasMore, filters, resetFilter, resetResolved>>
  /\ UNCHANGED <<srvTasks, nextId, socketQueue, tasks, cursor, hasMore,
                 isLoadingTasks, selectedTask, isSheetOpen,
                 locallyCreatedTaskIds, timers, hSelected, pendingLoads,
                 pendingCreates, pendingDeletes, createdIns, sheetVars, extVars>>

NextList ==
  \/ \E v \in Statuses : SelectStatus(v)
  \/ HandleApplyFilters
  \/ HandleResetFilters
  \/ ClearStatusPill
  \/ HandleLoadMore
  \/ \E i \in 1..MaxPending : ServerHandleProjects(i)
  \/ \E i \in 1..MaxPending : LoadProjectsResolve(i)
  \/ \E i \in 1..MaxPending : LoadProjectsFail(i)

SpecList == Init /\ [][NextList]_vars

\* The page with the create dialog as shipped: loads, creates by this client
\* and by others, the broadcasts.
NextCreate ==
  \/ \E i \in 1..MaxPending : ServerHandleLoad(i)
  \/ \E i \in 1..MaxPending : LoadTasksResolve(i)
  \/ ClickLoadMore
  \/ RemoteCreate
  \/ SubmitCreate
  \/ CreateResolve
  \/ OnTaskCreated

SpecCreate == Init /\ [][NextCreate]_vars

\* ============================================================ session
\* AuthProvider (src/hooks/useSocket.ts 181-236), the shared connection of
\* src/lib/socket.ts and the room hooks of src/hooks/useSocket.ts 49-147.

\* A connection is open from io(...) until socket.disconnect(): socket.io keeps
\* reconnecting a connection that dropped.
IsOpen(c) == connState[c] \in {"connecting", "connected", "dropped"}

FreeConns == {c \in Conns : connState[c] = "unused"}

\* connectSocket(token): the existing socket is reused only when it is
\* connected; otherwise io(...) creates a connection and "socket" is overwritten.
ConnectSocketReuses == socket # 0 /\ connState[socket] = "connected"

ConnectSocket ==
  IF ConnectSocketReuses
  THEN UNCHANGED <<socket, connState>>
  ELSE /\ FreeConns # {}
       /\ LET c == CHOOSE x \in FreeConns : \A y \in FreeConns : x <= y
          IN /\ socket' = c
             /\ connState' = [connState EXCEPT ![c] = "connecting"]

\* disconnectSocket(): closes the referenced connection and forgets it.  The
\* server drops the rooms of a closed connection.
DisconnectSocket ==
  IF socket = 0
  THEN UNCHANGED <<socket, connState, sendBuf, rooms>>
  ELSE /\ connState' = [connState EXCEPT ![socket] = "closed"]
       /\ sendBuf' = [sendBuf EXCEPT ![socket] = <<>>]
       /\ rooms' = [rooms EXCEPT ![socket] = {}]
       /\ socket' = 0

\* AuthProvider.logout: setUser(null), removeAccessToken(), disconnectSocket().
LogoutEffect ==
  /\ user' = 0
  /\ token' = FALSE
  /\ DisconnectSocket

\* The mount effect's profile fetch answers with a user: setUser, connectSocket
\* with the token read when the effect ran.
ProfileOk ==
  /\ profilePending
  /\ profilePending' = FALSE
  /\ user' = 1
  /\ ConnectSocket
  /\ lastOp' = "profileOk"
  /\ UNCHANGED <<token, sendBuf, rooms, viewTopic, viewSock, openJoins>>
  /\ UNCHANGED <<pageState, sheetVars, listVars, fetchVars, viewVars, projVars, cmtVars, moreVars>>

\* The profile fetch fails: a rejected fetch removes the token, an answer
\* without a user changes nothing.
ProfileFail(rejected) ==
  /\ profilePending
  /\ profilePending' = FALSE
  /\ token' = IF rejected THEN FALSE ELSE token
  /\ lastOp' = "profileFail"
  /\ UNCHANGED <<user, socket, connState, sendBuf, rooms, viewTopic, viewSock,
                 openJoins>>
  /\ UNCHANGED <<pageState, sheetVars, listVars, fetchVars, viewVars, projVars, cmtVars, moreVars>>

\* AuthProvider.login(user), called by the login form once the backend has set
\* the cookie.
Login ==
  /\ user = 0
  /\ token' = TRUE
  /\ user' = 1
  /\ ConnectSocket
  /\ lastOp' = "login"
  /\ UNCHANGED <<profilePending, sendBuf, rooms, viewTopic, viewSock, openJoins>>
  /\ UNCHANGED <<pageState, sheetVars, listVars, fetchVars, viewVars, projVars, cmtVars, moreVars>>

\* The navbar's logout button.
Logout ==
  /\ user # 0
  /\ LogoutEffect
  /\ lastOp' = "logout"
  /\ UNCHANGED <<profilePending, viewTopic, viewSock, openJoins>>
  /\ UNCHANGED <<pageState, sheetVars, listVars, fetchVars, viewVars, projVars, cmtVars, moreVars>>

\* What the server does with one emit of a connection.
ApplyEmit(R, e) ==
  IF e.type = "join" THEN R \cup {e.topic} ELSE R \ {e.topic}

RECURSIVE ApplyEmits(_, _)
ApplyEmits(R, q) ==
  IF q = <<>> THEN R ELSE ApplyEmits(ApplyEmit(R, Head(q)), Tail(q))

\* The transport (re)connects: "connect" fires, the buffered emits are sent.
ConnUp(c) ==
  /\ connState[c] \in {"connecting", "dropped"}
  /\ connState' = [connState EXCEPT ![c] = "connected"]
  /\ rooms' = [rooms EXCEPT ![c] = ApplyEmits(@, sendBuf[c])]
  /\ sendBuf' = [sendBuf EXCEPT ![c] = <<>>]
  /\ lastOp' = "connect"
  /\ UNCHANGED <<token, user, profilePending, socket, viewTopic, viewSock,
                 openJoins>>
  /\ UNCHANGED <<pageState, sheetVars, listVars, fetchVars, viewVars, projVars, cmtVars, moreVars>>

\* The transport drops: "disconnect" fires; the server forgets the rooms of the
\* connection (they belong to the server-side socket that ended).
ConnDrop(c) ==
  /\ connState[c] = "connected"
  /\ connState' = [connState EXCEPT ![c] = "dropped"]
  /\ rooms' = [rooms EXCEPT ![c] = {}]
  /\ lastOp' = "disconnect"
  /\ UNCHANGED <<token, user, profilePending, socket, sendBuf, viewTopic,
                 viewSock, openJoins>>
  /\ UNCHANGED <<pageState, sheetVars, listVars, fetchVars, viewVars, projVars, cmtVars, moreVars>>

\* ------------------------------------------------------------ room hooks
\* The hook-visible world a chain of cleanup / setup calls transforms.
HookWorld == [buf |-> sendBuf, rooms |-> rooms, open |-> openJoins,
              vs |-> viewSock, vt |-> viewTopic, cs |-> connState]

\* socket?.emit(type, topic) of joinProjectRoom / leaveProjectRoom / joinTaskRoom
\* / leaveTaskRoom: nothing without a socket; sent when the referenced socket is
\* connected, buffered otherwise.
EmitOn(w, type, topic) ==
  IF socket = 0 THEN w
  ELSE LET e == [type |-> type, topic |-> topic]
           w1 == [w EXCEPT !.open[topic] = @ + (IF type = "join" THEN 1 ELSE -1)]
       IN IF w.cs[socket] = "connected"
          THEN [w1 EXCEPT !.rooms[socket] = ApplyEmit(@, e)]
          ELSE [w1 EXCEPT !.buf[socket] = Append(@, e)]

\* The effect body: returns early without an id or without a socket, else joins
\* the room and registers its handlers on the socket getSocket() returned.
HookSetup(w, v, id) ==
  IF id = 0 \/ socket = 0
  THEN [w EXCEPT !.vs[v] = 0, !.vt[v] = id]
  ELSE [EmitOn(w, "join", <<v, id>>) EXCEPT !.vs[v] = socket, !.vt[v] = id]

\* Mutant: the cleanup also calls socket.disconnect() on its socket.
HookCleanup_Disconnects(w, v) ==
  IF w.vs[v] = 0 THEN w
  ELSE [EmitOn(w, "leave", <<v, w.vt[v]>>) EXCEPT
          !.vs[v] = 0, !.cs[w.vs[v]] = "closed", !.rooms[w.vs[v]] = {},
          !.buf[w.vs[v]] = <<>>]

\* The effect's cleanup (it exists only when the body got past its early
\* returns): leaves the room through the socket referenced NOW and removes its
\* own handlers from the socket it registered them on.
HookCleanup(w, v) ==
  IF w.vs[v] = 0 THEN w
  ELSE [EmitOn(w, "leave", <<v, w.vt[v]>>) EXCEPT !.vs[v] = 0]

\* The result of a chain of hook calls becomes the next state.
HookCommit(w) ==
  /\ \A c \in Conns : Len(w.buf[c]) <= MaxBuf
  /\ sendBuf' = w.buf
  /\ rooms' = w.rooms
  /\ openJoins' = w.open
  /\ viewSock' = w.vs
  /\ viewTopic' = w.vt
  /\ connState' = w.cs

\* A view mounts with identifier id (the sheet lives inside the project page).
ViewMount(v, id) ==
  /\ viewTopic[v] = 0
  /\ id \in 1..NumIds
  /\ v = "task" => viewTopic["project"] # 0
  /\ HookCommit(HookSetup(HookWorld, v, id))
  /\ lastOp' = "viewMount:" \o v
  /\ UNCHANGED <<token, user, profilePending, socket>>
  /\ UNCHANGED <<pageState, sheetVars, listVars, fetchVars, viewVars, projVars, cmtVars, moreVars>>

\* A render with new callback identities (the callbacks are created inline, so
\* every render): the effect is cleaned up and run again.
ViewRerender(v) ==
  /\ viewTopic[v] # 0
  /\ HookCommit(HookSetup(HookCleanup(HookWorld, v), v, viewTopic[v]))
  /\ lastOp' = "viewRerender:" \o v
  /\ UNCHANGED <<token, user, profilePending, socket>>
  /\ UNCHANGED <<pageState, sheetVars, listVars, fetchVars, viewVars, projVars, cmtVars, moreVars>>

\* The identifier changes (another project route, another task in the sheet).
ViewChangeId(v, id) ==
  /\ viewTopic[v] # 0
  /\ id \in 1..NumIds
  /\ id # viewTopic[v]
  /\ HookCommit(HookSetup(HookCleanup(HookWorld, v), v, id))
  /\ lastOp' = "viewChangeId:" \o v
  /\ UNCHANGED <<token, user, profilePending, socket>>
  /\ UNCHANGED <<pageState, sheetVars, listVars, fetchVars, viewVars, projVars, cmtVars, moreVars>>

\* The view unmounts (the sheet closes; the page is left, and its sheet with
\* it): the cleanups run, children first.
ViewUnmount(v) ==
  /\ viewTopic[v] # 0
  /\ LET w1 == [HookCleanup(HookWorld, "task") EXCEPT !.vt["task"] = 0]
         w2 == IF v = "task" THEN w1
               ELSE [HookCleanup(w1, "project") EXCEPT !.vt["project"] = 0]
     IN HookCommit(w2)
  /\ lastOp' = "viewUnmount:" \o v
  /\ UNCHANGED <<token, user, profilePending, socket>>
  /\ UNCHANGED <<pageState, sheetVars, listVars, fetchVars, viewVars, projVars, cmtVars, moreVars>>

\* A view receives the events of its topic when its handlers sit on a connected
\* connection that the server has in the topic's room.
Receives(v) ==
  /\ viewTopic[v] # 0
  /\ viewSock[v] # 0
  /\ connState[viewSock[v]] = "connected"
  /\ <<v, viewTopic[v]>> \in rooms[viewSock[v]]

\* ------------------------------------------------------------ useFetch
\* src/unnamed/part_012.  A response is a status and a body; the body either
\* parses to JSON (with or without a "message") or does not parse.
SessionExpiredMsg == "Session expired. Please login again."

DefaultErrorMsg == "An error occurred"

Statuses401 == {200, 401, 500}

Bodies == {[json |-> TRUE, message |-> "server message", payload |-> 1],
           [json |-> TRUE, message |-> "", payload |-> 2],
           [json |-> FALSE, message |-> "", payload |-> 0]}

\* Message of the exception fetch() / response.json() throws.
NetworkErrorMsg == "Failed to fetch"

ParseErrorMsg == "Unexpected token"

\* fetchData(url, options) up to its await fetch(...): setIsLoading(true),
\* setError(null), one request sent.
FetchStart ==
  /\ Len(fCalls) < MaxFetch
  /\ fLoading' = TRUE
  /\ fError' = ""
  /\ fCalls' = Append(fCalls, [attempts |-> 1])
  /\ lastOp' = "fetchStart"
  /\ UNCHANGED <<fData, fDone>>
  /\ UNCHANGED <<pageState, sheetVars, listVars, sessVars, viewVars, projVars, cmtVars, moreVars>>

\* What fetchData does with the outcome of its request: the kind of outcome,
\* the error it sets ("" leaves it alone) and the value it returns (0 is null).
FetchOutcome(net, status, body) ==
  IF net THEN [kind |-> "network", error |-> NetworkErrorMsg, returned |-> 0]
  ELSE IF status = 401
       THEN [kind |-> "401", error |-> SessionExpiredMsg, returned |-> 0]
  ELSE IF ~body.json
       THEN [kind |-> "parse", error |-> ParseErrorMsg, returned |-> 0]
  ELSE IF status # 200
       THEN [kind |-> "notOk",
             error |-> IF body.message # "" THEN body.message ELSE DefaultErrorMsg,
             returned |-> 0]
  ELSE [kind |-> "ok", error |-> "", returned |-> body.payload]

\* Mutant: a failed request is sent again instead of being reported.
FetchResolve_Retries(i, net, status, body) ==
  /\ i \in 1..Len(fCalls)
  /\ LET o == FetchOutcome(net, status, body)
     IN IF o.kind \in {"ok", "401"} \/ fCalls[i].attempts >= 2
        THEN /\ fCalls' = RemoveAt(fCalls, i)
             /\ fError' = IF o.error # "" THEN o.error ELSE fError
             /\ fData' = IF o.kind = "ok" THEN o.returned ELSE fData
             /\ fLoading' = FALSE
             /\ fDone' = [kind |-> o.kind, returned |-> o.returned,
                          message |-> body.message, sock |-> socket,
                          attempts |-> fCalls[i].attempts]
             /\ lastOp' = "fetch:" \o o.kind
        ELSE /\ fCalls' = [fCalls EXCEPT ![i].attempts = @ + 1]
             /\ lastOp' = "fetchRetry"
             /\ UNCHANGED <<fError, fData, fLoading, fDone>>
  /\ IF FetchOutcome(net, status, body).kind = "401"
     THEN LogoutEffect
     ELSE UNCHANGED <<user, token, socket, connState, sendBuf, rooms>>
  /\ UNCHANGED <<profilePending, viewTopic, viewSock, openJoins>>
  /\ UNCHANGED <<pageState, sheetVars, listVars, viewVars, projVars, cmtVars, moreVars>>

\* Mutant: a 401 is reported like any other failure, the session is kept.
FetchResolve_Keeps401Session(i, net, status, body) ==
  /\ i \in 1..Len(fCalls)
  /\ LET o == FetchOutcome(net, status, body)
     IN /\ fCalls' = RemoveAt(fCalls, i)
        /\ fError' = IF o.error # "" THEN o.error ELSE fError
        /\ fData' = IF o.kind = "ok" THEN o.returned ELSE fData
        /\ fLoading' = FALSE
        /\ fDone' = [kind |-> o.kind, returned |-> o.returned,
                          message |-> body.message, sock |-> socket,
                     attempts |-> fCalls[i].attempts]
        /\ lastOp' = "fetch:" \o o.kind
  /\ UNCHANGED <<user, token, socket, connState, sendBuf, rooms>>
  /\ UNCHANGED <<profilePending, viewTopic, viewSock, openJoins>>
  /\ UNCHANGED <<pageState, sheetVars, listVars, viewVars, projVars, cmtVars, moreVars>>

\* fetchData from the outcome of its await fetch(...) to its return: on 401
\* logout(), removeAccessToken(), the session-expired error, null; on a body
\* that does not parse or a network failure the catch block; on a non-2xx
\* status the server's message; else setData(result).  finally:
\* setIsLoading(false).
FetchResolve(i, net, status, body) ==
  /\ i \in 1..Len(fCalls)
  /\ LET o == FetchOutcome(net, status, body)
     IN /\ fCalls' = RemoveAt(fCalls, i)
        /\ fError' = IF o.error # "" THEN o.error ELSE fError
        /\ fData' = IF o.kind = "ok" THEN o.returned ELSE fData
        /\ fLoading' = FALSE
        /\ fDone' = [kind |-> o.kind, returned |-> o.returned,
                          message |-> body.message, sock |-> socket,
                     attempts |-> fCalls[i].attempts]
        /\ lastOp' = "fetch:" \o o.kind
        /\ IF o.kind = "401"
           THEN LogoutEffect
           ELSE UNCHANGED <<user, token, socket, connState, sendBuf, rooms>>
  /\ UNCHANGED <<profilePending, viewTopic, viewSock, openJoins>>
  /\ UNCHANGED <<pageState, sheetVars, listVars, viewVars, projVars, cmtVars, moreVars>>

\* The session, its connection and the room hooks.
NextConn ==
  \/ ProfileOk
  \/ \E r \in BOOLEAN : ProfileFail(r)
  \/ Login
  \/ Logout
  \/ \E c \in Conns : ConnUp(c)
  \/ \E c \in Conns : ConnDrop(c)
  \/ \E v \in Views, id \in 1..NumIds : ViewMount(v, id)
  \/ \E v \in Views : ViewRerender(v)
  \/ \E v \in Views, id \in 1..NumIds : ViewChangeId(v, id)
  \/ \E v \in Views : ViewUnmount(v)

\* The session and the requests of one useFetch hook.
NextFetch ==
  \/ ProfileOk
  \/ \E r \in BOOLEAN : ProfileFail(r)
  \/ Login
  \/ Logout
  \/ \E c \in Conns : ConnUp(c)
  \/ FetchStart
  \/ \E i \in 1..MaxFetch, net \in BOOLEAN, st \in Statuses401, b \in Bodies :
       FetchResolve(i, net, st, b)

\* The application from the moment it is loaded, with or without a stored token.
InitSession ==
  /\ InitPage /\ InitSheetView /\ InitList
  /\ \E tok \in BOOLEAN : InitSess(tok)
  /\ InitFetch /\ InitView /\ InitProj /\ InitCmt /\ InitMore

SpecConn == InitSession /\ [][NextConn]_vars

SpecFetch == InitSession /\ [][NextFetch]_vars

\* ============================================================ search box
\* filteredTasks of the project page (src/app/projects/[id]/page.tsx 404-417).
\* Strings are sequences of characters.

\* Title and optional description of the task with a given id.
TitleOf(id) == IF id % 2 = 1 THEN <<"A", "b">> ELSE <<"c">>

HasDescription(id) == id = 2

DescriptionOf(id) == <<"x", " ", "A">>

\* What the user can type into the search box.
Queries == {<<>>, <<" ">>, <<"a">>, <<"B">>, <<" ", "a">>}

\* String.prototype.toLowerCase on the characters used here.
LowerChar(ch) ==
  CASE ch = "A" -> "a"
    [] ch = "B" -> "b"
    [] OTHER -> ch

toLowerCase(str) == [i \in 1..Len(str) |-> LowerChar(str[i])]

\* String.prototype.trim
RECURSIVE trim(_)
trim(str) ==
  IF str = <<>> THEN str
  ELSE IF Head(str) = " " THEN trim(Tail(str))
  ELSE IF str[Len(str)] = " " THEN trim(SubSeq(str, 1, Len(str) - 1))
  ELSE str

\* String.prototype.includes
includes(str, q) ==
  \E i \in 0..Len(str) :
    i + Len(q) <= Len(str) /\ SubSeq(str, i + 1, i + Len(q)) = q

\* The value the effect hands to setFilteredTasks.
FilterTasks(ts, sq) ==
  IF trim(sq) = <<>> THEN ts
  ELSE LET query == toLowerCase(sq)
       IN SelectSeq(ts, LAMBDA t :
            \/ includes(toLowerCase(TitleOf(t.id)), query)
            \/ (HasDescription(t.id)
                  /\ includes(toLowerCase(DescriptionOf(t.id)), query)))

\* onChange of the search input: setSearchQuery(e.target.value).
SetSearchQuery(q) ==
  /\ q \in Queries
  /\ q # searchQuery
  /\ searchQuery' = q
  /\ lastOp' = "setSearchQuery"
  /\ UNCHANGED <<filteredTasks, pageState, sheetVars, listVars, sessVars,
                 fetchVars, projVars,
                 cmtVars, moreVars>>

\* The effect on [searchQuery, tasks]: it runs after the render that saw the
\* new tasks or the new query has been committed.
FilterEffect ==
  /\ filteredTasks # FilterTasks(tasks, searchQuery)
  /\ filteredTasks' = FilterTasks(tasks, searchQuery)
  /\ lastOp' = "filterEffect"
  /\ UNCHANGED <<searchQuery, pageState, sheetVars, listVars, sessVars,
                 fetchVars, projVars,
                 cmtVars, moreVars>>

\* The page's loads and the remote creates and deletes, with the search box.
NextView ==
  \/ \E i \in 1..MaxPending : ServerHandleLoad(i)
  \/ \E i \in 1..MaxPending : LoadTasksResolve(i)
  \/ ClickLoadMore
  \/ RemoteCreate
  \/ OnTaskCreated
  \/ \E t \in srvTasks : RemoteDelete(t)
  \/ OnTaskDeleted
  \/ \E q \in Queries : SetSearchQuery(q)
  \/ FilterEffect

SpecView == Init /\ [][NextView]_vars

\* ============================================================ project header
\* loadProject / updateProject and the project:updated event of
\* src/app/projects/[id]/page.tsx 338-367, 454-458.
\* Bounds: updateProject calls in flight, loadProject calls in flight,
\* undelivered project:updated events.
MaxPatches == 1

MaxLoads == 2

MaxEvents == 1

ProjFrame == <<pageState, sheetVars, listVars, sessVars, fetchVars, viewVars,
               cmtVars, moreVars>>

\* GET /api/projects/{id}: the server answers with the stored project, or the
\* request fails.
ServerHandleProject(i, ok) ==
  /\ i \in 1..Len(pendingProject)
  /\ ~pendingProject[i].handled
  /\ pendingProject' = [pendingProject EXCEPT ![i] =
        [why |-> pendingProject[i].why, handled |-> TRUE, ok |-> ok,
         resp |-> IF ok THEN srvProject ELSE NoProject]]
  /\ lastOp' = "server"
  /\ UNCHANGED <<project, srvProject, pendingPatches, projectEvents, pendingMembers,
               ProjFrame>>

\* loadProject after its await: setProject(response.project) on success.
LoadProjectResolve(i) ==
  /\ i \in 1..Len(pendingProject)
  /\ pendingProject[i].handled
  /\ project' = IF pendingProject[i].ok THEN pendingProject[i].resp ELSE project
  /\ pendingProject' = RemoveAt(pendingProject, i)
  /\ lastOp' = IF ~pendingProject[i].ok THEN "loadProjectFail"
               ELSE IF pendingProject[i].why = "revert" THEN "loadProjectOk:revert"
               ELSE "loadProjectOk"
  /\ UNCHANGED <<srvProject, pendingPatches, projectEvents, pendingMembers,
               ProjFrame>>

\* updateProject(updates) up to its await: returns without a project, else the
\* optimistic setProject({...project, ...updates}) and the PATCH.
UpdateProject(f, v) ==
  /\ project # NoProject
  /\ f \in {"name", "status"}
  /\ v \in 1..NumVals
  /\ project[f] # v
  /\ Len(pendingPatches) < MaxPatches
  /\ project' = [project EXCEPT ![f] = v]
  /\ pendingPatches' = Append(pendingPatches,
        [field |-> f, val |-> v, before |-> project, handled |-> FALSE,
         ok |-> FALSE])
  /\ lastOp' = "updateProject"
  /\ UNCHANGED <<srvProject, pendingProject, projectEvents, pendingMembers,
               ProjFrame>>

\* PATCH /api/projects/{id}: the server stores the change and broadcasts
\* project:updated to the room, or rejects the request.
ServerHandlePatch(i, ok) ==
  /\ i \in 1..Len(pendingPatches)
  /\ ~pendingPatches[i].handled
  /\ ok => Len(projectEvents) < MaxEvents
  /\ pendingPatches' = [pendingPatches EXCEPT ![i].handled = TRUE, ![i].ok = ok]
  /\ LET stored == [srvProject EXCEPT ![pendingPatches[i].field] = pendingPatches[i].val]
     IN IF ok
        THEN /\ srvProject' = stored
             /\ projectEvents' = Append(projectEvents,
                                         ProjectEvent("project:updated", stored, 0))
        ELSE UNCHANGED <<srvProject, projectEvents>>
  /\ lastOp' = "server"
  /\ UNCHANGED <<project, pendingProject, pendingMembers,
               ProjFrame>>

\* Mutant: on failure the project is put back to what it was before the edit.
UpdateProjectResolve_RestoresSnapshot(i) ==
  /\ i \in 1..Len(pendingPatches)
  /\ pendingPatches[i].handled
  /\ pendingPatches' = RemoveAt(pendingPatches, i)
  /\ IF pendingPatches[i].ok
     THEN /\ lastOp' = "updateProjectOk"
          /\ UNCHANGED <<project, pendingProject>>
     ELSE /\ project' = pendingPatches[i].before
          /\ lastOp' = "updateProjectFail"
          /\ UNCHANGED pendingProject
  /\ UNCHANGED <<srvProject, projectEvents, pendingMembers,
               ProjFrame>>

\* updateProject after its await: a toast on success; on failure the toast and
\* loadProject().
UpdateProjectResolve(i) ==
  /\ i \in 1..Len(pendingPatches)
  /\ pendingPatches[i].handled
  /\ pendingPatches' = RemoveAt(pendingPatches, i)
  /\ IF pendingPatches[i].ok
     THEN /\ lastOp' = "updateProjectOk"
          /\ UNCHANGED <<project, pendingProject>>
     ELSE /\ Len(pendingProject) < MaxLoads
          /\ pendingProject' = Append(pendingProject,
                [why |-> "revert", handled |-> FALSE, ok |-> FALSE,
                 resp |-> NoProject])
          /\ lastOp' = "updateProjectFail"
          /\ UNCHANGED project
  /\ UNCHANGED <<srvProject, projectEvents, pendingMembers,
               ProjFrame>>

\* Another client edits the project: the server stores it and broadcasts.
RemoteEditProject(f, v) ==
  /\ f \in {"name", "status"}
  /\ v \in 1..NumVals
  /\ srvProject[f] # v
  /\ Len(projectEvents) < MaxEvents
  /\ srvProject' = [srvProject EXCEPT ![f] = v]
  /\ projectEvents' = Append(projectEvents,
                              ProjectEvent("project:updated", srvProject', 0))
  /\ lastOp' = "server"
  /\ UNCHANGED <<project, pendingPatches, pendingProject, pendingMembers,
               ProjFrame>>

\* onProjectUpdated: setProject(updatedProject).
OnProjectUpdated ==
  /\ projectEvents # <<>>
  /\ Head(projectEvents).type = "project:updated"
  /\ project' = Head(projectEvents).project
  /\ projectEvents' = Tail(projectEvents)
  /\ lastOp' = "onProjectUpdated"
  /\ UNCHANGED <<srvProject, pendingPatches, pendingProject, pendingMembers,
               ProjFrame>>

NextProject ==
  \/ \E i \in 1..MaxLoads, ok \in BOOLEAN : ServerHandleProject(i, ok)
  \/ \E i \in 1..MaxLoads : LoadProjectResolve(i)
  \/ \E f \in {"name", "status"}, v \in 1..NumVals : UpdateProject(f, v)
  \/ \E i \in 1..MaxPatches, ok \in BOOLEAN : ServerHandlePatch(i, ok)
  \/ \E i \in 1..MaxPatches : UpdateProjectResolve(i)
  \/ \E f \in {"name", "status"}, v \in 1..NumVals : RemoteEditProject(f, v)
  \/ OnProjectUpdated

SpecProject == Init /\ [][NextProject]_vars

\* ------------------------------------------------------------ project members
\* handleAddMember / handleRemoveMember and the member:* events of
\* src/app/projects/[id]/page.tsx 459-477, 498-530.
\* Users known to the server (bound); user 1 owns the project.
NumUsers == 2

\* Member requests in flight (bound).
MaxMemberReqs == 1

Has(ms, u) == \E i \in 1..Len(ms) : ms[i] = u

\* members.filter(m => m._id !== userId)
WithoutMember(ms, u) == SelectSeq(ms, LAMBDA m : m # u)

MemberFrame == <<srvProject, pendingPatches, pendingProject, projectEvents,
                 ProjFrame>>

\* handleAddMember up to its await: POST /api/projects/{id}/members.
HandleAddMember(u) ==
  /\ project # NoProject
  /\ u \in 2..NumUsers
  /\ Len(pendingMembers) < MaxMemberReqs
  /\ pendingMembers' = Append(pendingMembers,
        [kind |-> "add", user |-> u, snap |-> project, handled |-> FALSE,
         ok |-> FALSE])
  /\ lastOp' = "handleAddMember"
  /\ UNCHANGED <<project, MemberFrame>>

\* handleRemoveMember up to its await: DELETE /api/projects/{id}/members/{u}.
\* The continuation keeps the project of the render in which it was called.
HandleRemoveMember(u) ==
  /\ project # NoProject
  /\ u \in 2..NumUsers
  /\ Has(project.members, u)
  /\ Len(pendingMembers) < MaxMemberReqs
  /\ pendingMembers' = Append(pendingMembers,
        [kind |-> "remove", user |-> u, snap |-> project, handled |-> FALSE,
         ok |-> FALSE])
  /\ lastOp' = "handleRemoveMember"
  /\ UNCHANGED <<project, MemberFrame>>

\* The server's member list after a request of kind k for user u.
SrvMembersAfter(k, u) ==
  IF k = "add" THEN Append(srvProject.members, u)
  ELSE WithoutMember(srvProject.members, u)

\* The server adds a user who is not a member, removes one who is, and
\* broadcasts member:added / member:removed to the project room (the sender
\* included); any other request is rejected.
ServerHandleMember(i) ==
  /\ i \in 1..Len(pendingMembers)
  /\ ~pendingMembers[i].handled
  /\ LET r == pendingMembers[i]
         ok == (r.kind = "add") # Has(srvProject.members, r.user)
     IN /\ pendingMembers' = [pendingMembers EXCEPT ![i].handled = TRUE,
                                                   ![i].ok = ok]
        /\ IF ok
           THEN /\ Len(projectEvents) < MaxEvents
                /\ srvProject' = [srvProject EXCEPT
                                    !.members = SrvMembersAfter(r.kind, r.user)]
                /\ projectEvents' = Append(projectEvents,
                      ProjectEvent(IF r.kind = "add" THEN "member:added"
                                   ELSE "member:removed", NoProject, r.user))
           ELSE UNCHANGED <<srvProject, projectEvents>>
  /\ lastOp' = "server"
  /\ UNCHANGED <<project, pendingPatches, pendingProject, ProjFrame>>

\* handleRemoveMember on success: if (project) setProject({...project,
\* members: project.members.filter(...)}) with the project of its closure.
RemoveMemberApply(prev, snap, u) ==
  IF snap = NoProject THEN prev
  ELSE [snap EXCEPT !.members = WithoutMember(snap.members, u)]

\* The continuation of handleAddMember / handleRemoveMember: a successful add
\* calls loadProject(), a successful removal sets the project, a failure only
\* shows a toast.
MemberResolve(i) ==
  /\ i \in 1..Len(pendingMembers)
  /\ pendingMembers[i].handled
  /\ pendingMembers' = RemoveAt(pendingMembers, i)
  /\ LET r == pendingMembers[i] IN
       IF ~r.ok
       THEN /\ lastOp' = "memberFail"
            /\ UNCHANGED <<project, pendingProject>>
       ELSE IF r.kind = "add"
       THEN /\ Len(pendingProject) < MaxLoads
            /\ pendingProject' = Append(pendingProject,
                  [why |-> "members", handled |-> FALSE, ok |-> FALSE,
                   resp |-> NoProject])
            /\ lastOp' = "addMemberOk"
            /\ UNCHANGED project
       ELSE /\ project' = RemoveMemberApply(project, r.snap, r.user)
            /\ lastOp' = "removeMemberOk"
            /\ UNCHANGED pendingProject
  /\ UNCHANGED <<srvProject, pendingPatches, projectEvents, ProjFrame>>

\* Another client adds or removes a member.
RemoteMember(k, u) ==
  /\ k \in {"add", "remove"}
  /\ u \in 2..NumUsers
  /\ (k = "add") # Has(srvProject.members, u)
  /\ Len(projectEvents) < MaxEvents
  /\ srvProject' = [srvProject EXCEPT !.members = SrvMembersAfter(k, u)]
  /\ projectEvents' = Append(projectEvents,
        ProjectEvent(IF k = "add" THEN "member:added" ELSE "member:removed",
                     NoProject, u))
  /\ lastOp' = "server"
  /\ UNCHANGED <<project, pendingPatches, pendingProject, pendingMembers,
                 ProjFrame>>

\* Mutant: the member is appended without looking for it.
MemberAddApply_NoCheck(prev, m) ==
  IF prev = NoProject THEN prev
  ELSE [prev EXCEPT !.members = Append(prev.members, m)]

\* onMemberAdded: setProject(prev => ...), unchanged without a project or when
\* the member is already listed.
MemberAddApply(prev, m) ==
  IF prev = NoProject THEN prev
  ELSE IF Has(prev.members, m) THEN prev
  ELSE [prev EXCEPT !.members = Append(prev.members, m)]

OnMemberAdded ==
  /\ projectEvents # <<>>
  /\ Head(projectEvents).type = "member:added"
  /\ project' = MemberAddApply(project, Head(projectEvents).member)
  /\ projectEvents' = Tail(projectEvents)
  /\ lastOp' = IF project # NoProject /\ Has(project.members, Head(projectEvents).member)
               THEN "onMemberAdded:present" ELSE "onMemberAdded"
  /\ UNCHANGED <<srvProject, pendingPatches, pendingProject, pendingMembers,
                 ProjFrame>>

\* onMemberRemoved: setProject(prev => ...members.filter(...)).
OnMemberRemoved ==
  /\ projectEvents # <<>>
  /\ Head(projectEvents).type = "member:removed"
  /\ project' = IF project = NoProject THEN project
                ELSE [project EXCEPT !.members =
                        WithoutMember(project.members, Head(projectEvents).member)]
  /\ projectEvents' = Tail(projectEvents)
  /\ lastOp' = "onMemberRemoved"
  /\ UNCHANGED <<srvProject, pendingPatches, pendingProject, pendingMembers,
                 ProjFrame>>

NextMembers ==
  \/ \E i \in 1..MaxLoads, ok \in BOOLEAN : ServerHandleProject(i, ok)
  \/ \E i \in 1..MaxLoads : LoadProjectResolve(i)
  \/ \E u \in 2..NumUsers : HandleAddMember(u)
  \/ \E u \in 2..NumUsers : HandleRemoveMember(u)
  \/ \E i \in 1..MaxMemberReqs : ServerHandleMember(i)
  \/ \E i \in 1..MaxMemberReqs : MemberResolve(i)
  \/ \E k \in {"add", "remove"}, u \in 2..NumUsers : RemoteMember(k, u)
  \/ \E v \in 1..NumVals : RemoteEditProject("name", v)
  \/ OnProjectUpdated
  \/ OnMemberAdded
  \/ OnMemberRemoved

SpecMembers == Init /\ [][NextMembers]_vars


\* ------------------------------------------------------------ paged ProjectsPage
\* The project list with Previous / Next buttons (src/unnamed/part_003).
\* Requests succeed and each is awaited before the next click.
NavFrame == <<pageState, sheetVars, listVars, sessVars, fetchVars, viewVars,
              projVars, cmtVars, gsVars>>

\* cursorHistory[k] of the array.
ArrayGet(h, k) == IF k + 1 <= Len(h) THEN h[k + 1] ELSE Undef

\* newHistory[k] = v on a copy of the array: a write past the end leaves the
\* slots in between unassigned.
ArraySet(h, k, v) ==
  [i \in 1..(IF k + 1 > Len(h) THEN k + 1 ELSE Len(h)) |->
     IF i = k + 1 THEN v ELSE IF i <= Len(h) THEN h[i] ELSE Undef]

\* if (nextCursor): null and undefined are falsy.
Truthy(c) == c # NoCursor /\ c # Undef

\* Largest page number reached (bound).
MaxPage == 3

\* loadProjects(cursor, currentFilters) up to its await; page is the
\* currentPage of the render whose loadProjects is called, next the page number
\* the caller sets afterwards (0: none).
NavLoad(c, f, page, next) ==
  [cursor |-> IF c = Undef THEN NoCursor ELSE c, filter |-> f, page |-> page,
   then |-> next, handled |-> FALSE, resp |-> NoResp]

NavServerHandle ==
  /\ navPending # <<>>
  /\ ~navPending[1].handled
  /\ navPending' = <<[navPending[1] EXCEPT
        !.handled = TRUE,
        !.resp = ServerProjectsPage(navPending[1].filter, navPending[1].cursor)]>>
  /\ lastOp' = "server"
  /\ UNCHANGED <<navProjects, currentPage, cursorHistory, navHasMore,
                 navFilters, navApplied, NavFrame>>

\* setCursorHistory(prev => ...) of loadProjects: newHistory[currentPage] =
\* nextCursor when the response has one.
StoreCursor(h, r) ==
  IF r.resp.nextCursor # NoCursor
  THEN ArraySet(h, r.page, r.resp.nextCursor)
  ELSE h

\* loadProjects after its await, then the rest of the handler that called
\* it: setCurrentPage.
NavLoadResolve ==
  /\ navPending # <<>>
  /\ navPending[1].handled
  /\ navProjects' = navPending[1].resp.items
  /\ navHasMore' = navPending[1].resp.hasMore
  /\ cursorHistory' = StoreCursor(cursorHistory, navPending[1])
  /\ currentPage' = IF navPending[1].then # 0 THEN navPending[1].then
                    ELSE currentPage
  /\ navPending' = <<>>
  /\ lastOp' = "navLoaded"
  /\ UNCHANGED <<navFilters, navApplied, NavFrame>>

\* Next button (disabled while !hasMore or navigating).
HandleNextPage ==
  /\ navPending = <<>>
  /\ navHasMore
  /\ currentPage < MaxPage
  /\ LET nextCursor == ArrayGet(cursorHistory, currentPage) IN
       IF Truthy(nextCursor)
       THEN /\ navPending' = <<NavLoad(nextCursor, navFilters, currentPage,
                                       currentPage + 1)>>
            /\ lastOp' = "handleNextPage"
       ELSE /\ UNCHANGED navPending
            /\ lastOp' = "handleNextPage:nocursor"
  /\ UNCHANGED <<navProjects, currentPage, cursorHistory, navHasMore,
                 navFilters, navApplied, NavFrame>>

\* Previous button (disabled on page 1 or while navigating).
HandlePrevPage ==
  /\ navPending = <<>>
  /\ currentPage > 1
  /\ LET prevPage == currentPage - 1
         prevCursor == IF prevPage = 1 THEN NoCursor
                       ELSE ArrayGet(cursorHistory, prevPage - 1)
     IN navPending' = <<NavLoad(prevCursor, navFilters, currentPage, prevPage)>>
  /\ lastOp' = "handlePrevPage"
  /\ UNCHANGED <<navProjects, currentPage, cursorHistory, navHasMore,
                 navFilters, navApplied, NavFrame>>

\* The status <Select> of the filter popover.
NavSelectStatus(v) ==
  /\ navPending = <<>>
  /\ v \in Statuses
  /\ v # navFilters
  /\ navFilters' = v
  /\ lastOp' = "navSelectStatus"
  /\ UNCHANGED <<navProjects, currentPage, cursorHistory, navHasMore,
                 navApplied, navPending, NavFrame>>

\* handleApplyFilters: resetPagination(), setProjects([]), loadProjects(null,
\* filters).
NavApplyFilters ==
  /\ navPending = <<>>
  /\ navFilters # navApplied
  /\ currentPage' = 1
  /\ cursorHistory' = <<NoCursor>>
  /\ navProjects' = <<>>
  /\ navPending' = <<NavLoad(NoCursor, navFilters, currentPage, 0)>>
  /\ navApplied' = navFilters
  /\ lastOp' = "navApplyFilters"
  /\ UNCHANGED <<navHasMore, navFilters, NavFrame>>

NextNav ==
  \/ NavServerHandle
  \/ NavLoadResolve
  \/ HandleNextPage
  \/ HandlePrevPage
  \/ \E v \in Statuses : NavSelectStatus(v)
  \/ NavApplyFilters

SpecNav == Init /\ [][NextNav]_vars

\* The server's page number n under filter f.
RECURSIVE PageNumber(_, _)
PageNumber(f, n) ==
  IF n <= 1 THEN ServerProjectsPage(f, NoCursor)
  ELSE ServerProjectsPage(f, PageNumber(f, n - 1).nextCursor)


\* ------------------------------------------------------------ GlobalSearch
\* The search dialog (src/unnamed/part_008 66-105).  Requests succeed.
\* Distinct non-blank queries (bound).
NumQueries == 2

\* Search requests in flight (bound).
MaxSearch == 2

GsFrame == <<pageState, sheetVars, listVars, sessVars, fetchVars, viewVars,
             projVars, cmtVars, navVars>>

\* Cmd/Ctrl+K or the search button: onOpenChange(true).
GsOpen ==
  /\ ~gsOpen
  /\ gsOpen' = TRUE
  /\ lastOp' = "gsOpen"
  /\ UNCHANGED <<gsQuery, gsResults, gsTimer, gsPending, GsFrame>>

\* onOpenChange(false): the open effect clears query and results; the query
\* effect's cleanup clears the timer and its body clears the results.
GsClose ==
  /\ gsOpen
  /\ gsOpen' = FALSE
  /\ gsQuery' = 0
  /\ gsResults' = 0
  /\ gsTimer' = 0
  /\ lastOp' = "gsClose"
  /\ UNCHANGED <<gsPending, GsFrame>>

\* The input's onChange: setQuery; the debounce effect runs its cleanup
\* (clearTimeout) and then clears the results for a blank query or starts a
\* 300 ms timer.
GsType(q) ==
  /\ gsOpen
  /\ q \in 0..NumQueries
  /\ q # gsQuery
  /\ gsQuery' = q
  /\ gsTimer' = q
  /\ gsResults' = IF q = 0 THEN 0 ELSE gsResults
  /\ lastOp' = "gsType"
  /\ UNCHANGED <<gsOpen, gsPending, GsFrame>>

\* The timer callback up to its await: fetchData(/api/search?q=...).
GsTimerFire ==
  /\ gsTimer # 0
  /\ Len(gsPending) < MaxSearch
  /\ gsPending' = Append(gsPending, gsTimer)
  /\ gsTimer' = 0
  /\ lastOp' = "gsTimer"
  /\ UNCHANGED <<gsOpen, gsQuery, gsResults, GsFrame>>

\* The timer callback after its await: setResults(response.results).
\* Responses arrive in any order.
GsResolve(i) ==
  /\ i \in 1..Len(gsPending)
  /\ gsResults' = gsPending[i]
  /\ gsPending' = [k \in 1..(Len(gsPending) - 1) |->
                     IF k < i THEN gsPending[k] ELSE gsPending[k + 1]]
  /\ lastOp' = "gsResolve"
  /\ UNCHANGED <<gsOpen, gsQuery, gsTimer, GsFrame>>

NextSearch ==
  \/ GsOpen
  \/ GsClose
  \/ \E q \in 0..NumQueries : GsType(q)
  \/ GsTimerFire
  \/ \E i \in 1..MaxSearch : GsResolve(i)

SpecSearch == Init /\ [][NextSearch]_vars

\* ============================================================ claims
IsDeletedDelivery(op) == op \in {"onTaskDeleted", "onTaskDeleted:closed"}

IsCreatedDelivery(op) ==
  op \in {"onTaskCreated:suppressed", "onTaskCreated:present", "onTaskCreated:inserted"}

\* C1: whatever the interleaving of first-page loads, load-more loads (two of
\* them with the same cursor included) and task:created broadcasts, no task id
\* occurs twice in the tasks collection.
C1_NoDuplicateTasks ==
  \A i, j \in 1..Len(tasks) : i # j => tasks[i].id # tasks[j].id

C5_NoTwoLoadMoreSameCursor ==
  \A i, j \in 1..Len(pendingLoads) :
     (i # j /\ pendingLoads[i].nextCursor # NoCursor)
        => pendingLoads[i].nextCursor # pendingLoads[j].nextCursor

C3_PaginationResetLaw ==
  (resetResolved /\ pendingProjects = <<>>)
     => projects = ServerProjectsPage(resetFilter, NoCursor).items

\* C4: a comments response that resolves after the view that requested it has
\* ended (the sheet was closed) is not applied to the comments shown by the
\* view that is active when it arrives: it leaves them as they are.
C4_StaleResponseDropped ==
  [][ (lastOp' = "loadCommentsOk:stale" /\ isSheetOpen) => comments' = comments ]_vars

\* C7: a successful load with no cursor sets tasks to the response's items, one
\* with a cursor appends them to the previous collection, and both set cursor
\* and hasMore to the response's nextCursor and hasMore.
C7_PageApplication ==
  [][ lastOp' = "loadTasksOk" =>
        \E i \in 1..Len(pendingLoads) :
           /\ pendingLoads[i].handled
           /\ pendingLoads' = RemoveAt(pendingLoads, i)
           /\ tasks' = IF pendingLoads[i].nextCursor = NoCursor
                       THEN pendingLoads[i].resp.items
                       ELSE tasks \o pendingLoads[i].resp.items
           /\ cursor' = pendingLoads[i].resp.nextCursor
           /\ hasMore' = pendingLoads[i].resp.hasMore ]_vars

\* The second page has been appended to the first and was the last one.
C7_Witness ==
  /\ lastOp = "loadTasksOk"
  /\ Len(tasks) > Limit
  /\ ~hasMore
  /\ cursor = NoCursor
  /\ tasks = SortDesc(srvTasks)

\* C8: a task:updated event replaces the element with the task's id by the new
\* snapshot at the same index and changes nothing else in the collection,
\* whether or not the id is marked as locally created; selectedTask becomes the
\* snapshot if it has that id; an absent id leaves the collection unchanged.
C8_RemoteUpdateInPlace ==
  [][ (lastOp' = "onTaskUpdated" /\ socketQueue # <<>> /\ socketQueue' = Tail(socketQueue))
      => LET u == Head(socketQueue).task IN
           /\ Len(tasks') = Len(tasks)
           /\ \A i \in 1..Len(tasks) :
                 tasks'[i] = IF tasks[i].id = u.id THEN u ELSE tasks[i]
           /\ selectedTask' = IF selectedTask.id = u.id THEN u ELSE selectedTask
           /\ (u.id \notin Ids(tasks) => tasks' = tasks) ]_vars

\* An update of the marked, selected task has been applied below the head.
C8_Witness ==
  /\ lastOp = "onTaskUpdated"
  /\ isSheetOpen
  /\ selectedTask.ver > 0
  /\ selectedTask.id \in locallyCreatedTaskIds
  /\ \E i \in 1..Len(tasks) : tasks[i] = selectedTask

\* C9: a task:deleted event removes the id from tasks, and if that task is open
\* in the detail sheet the sheet is closed and selectedTask cleared: after the
\* event the sheet is not open on the removed task.
C9_RemoteDeleteClosesSheet ==
  [][ (IsDeletedDelivery(lastOp') /\ socketQueue # <<>> /\ socketQueue' = Tail(socketQueue))
      => LET x == Head(socketQueue).task.id IN
           /\ tasks' = SelectSeq(tasks, LAMBDA t : t.id # x)
           /\ (isSheetOpen /\ selectedTask.id = x)
                 => (~isSheetOpen' /\ selectedTask' = NoTask)
           /\ ~(isSheetOpen' /\ selectedTask'.id = x) ]_vars

\* The event for the open task has been processed and has closed the sheet.
C9_Witness ==
  /\ lastOp = "onTaskDeleted:closed"
  /\ ~isSheetOpen
  /\ selectedTask = NoTask
  /\ hSelected # NoTask
  /\ hSelected.id \notin Ids(tasks)

\* C10: only a successful page load changes cursor or hasMore.
C10_CursorFrame ==
  [][ (cursor' # cursor \/ hasMore' # hasMore) => lastOp' = "loadTasksOk" ]_vars

\* A local create and a broadcast have been processed between two page loads,
\* with the pagination state of the first page still in place.
C10_Witness ==
  /\ lastOp \in {"handleTaskCreated", "onTaskCreated:inserted", "onTaskDeleted",
                 "onTaskUpdated", "handleTaskDeleted"}
  /\ hasMore
  /\ cursor # NoCursor
  /\ cursor \notin Ids(tasks)

\* C11: once a view has unmounted, every join its hook emitted for a topic has
\* been paired with a leave for that topic, and none of the hook's handlers is
\* left on a socket.
C11_SubscriptionSymmetry ==
  \A v \in Views :
    viewTopic[v] = 0 =>
      /\ viewSock[v] = 0
      /\ \A id \in 1..NumIds : openJoins[<<v, id>>] = 0

\* C12: at most one connection is open (connecting, connected or reconnecting)
\* at any time.
C12_SingleConnection ==
  Cardinality({c \in Conns : IsOpen(c)}) <= 1

\* C15: a connection is closed only by a step of the logout path, and a step of
\* one view's hook (mount, re-render, identifier change, unmount) never stops
\* another view that stays mounted from receiving its events.
C15_OnlyLogoutCloses ==
  [][ /\ \A c \in Conns :
           (connState'[c] = "closed" /\ connState[c] # "closed")
              => lastOp' \in {"logout", "fetch:401"}
      /\ \A v, w \in Views :
           ( /\ w # v
             /\ lastOp' \in {"viewMount:" \o v, "viewRerender:" \o v,
                             "viewChangeId:" \o v, "viewUnmount:" \o v}
             /\ Receives(w)
             /\ viewTopic'[w] # 0 )
              => Receives(w)' ]_vars

\* The sheet's hook has unmounted while the page's hook keeps receiving.
C15_Witness ==
  /\ lastOp = "viewUnmount:task"
  /\ Receives("project")
  /\ \A c \in Conns : connState[c] # "closed"

\* C18: a mounted view whose handlers sit on a connected connection with nothing
\* left to send is in its topic's room on the server (after a reconnect as well).
C18_RejoinAfterReconnect ==
  \A v \in Views :
    ( /\ viewTopic[v] # 0
      /\ viewSock[v] # 0
      /\ connState[viewSock[v]] = "connected"
      /\ sendBuf[viewSock[v]] = <<>> )
    => <<v, viewTopic[v]>> \in rooms[viewSock[v]]

IsFetchReturn(op) ==
  op \in {"fetch:ok", "fetch:401", "fetch:notOk", "fetch:network", "fetch:parse"}

\* C13: a fetchData call that receives a 401 removes the token, logs out (user
\* null, the referenced socket closed and forgotten), sets the session-expired
\* error, returns null and has made one network attempt.
C13_Handles401 ==
  [][ (lastOp' = "fetch:401" /\ Len(fCalls') < Len(fCalls)) =>
        /\ ~token'
        /\ user' = 0
        /\ socket' = 0
        /\ socket # 0 => connState'[socket] = "closed"
        /\ fError' = SessionExpiredMsg
        /\ fDone'.returned = 0
        /\ fDone'.attempts = 1
        /\ ~fLoading' ]_vars

\* A 401 has ended a session whose socket was connected.
C13_Witness ==
  /\ lastOp = "fetch:401"
  /\ fDone.sock # 0
  /\ connState[fDone.sock] = "closed"
  /\ user = 0
  /\ fError = SessionExpiredMsg

C16_ViewProjection ==
  filteredTasks =
    IF \A i \in 1..Len(searchQuery) : searchQuery[i] = " "
    THEN tasks
    ELSE SelectSeq(tasks, LAMBDA t :
           \/ includes(toLowerCase(TitleOf(t.id)), toLowerCase(searchQuery))
           \/ (HasDescription(t.id) /\
                 includes(toLowerCase(DescriptionOf(t.id)), toLowerCase(searchQuery))))

\* C20: when the response to a create of this client is processed after the
\* task's task:created broadcast has been processed, the tasks collection holds
\* the created task exactly once.
C20_EchoBeforeResponse ==
  [][ ( /\ lastOp' = "createResolve"
        /\ pendingCreates # <<>>
        /\ pendingCreates' = Tail(pendingCreates)
        /\ \A i \in 1..Len(socketQueue) :
             socketQueue[i].task.id # Head(pendingCreates).id )
      => Count(tasks', Head(pendingCreates).id) = 1 ]_vars

C19_OptimisticFailureReloads ==
  [][ /\ lastOp' = "updateProjectFail" =>
           /\ project' = project
           /\ Len(pendingProject') = Len(pendingProject) + 1
           /\ ~pendingProject'[Len(pendingProject')].handled
      /\ lastOp' \in {"loadProjectOk", "loadProjectOk:revert"} =>
           \E i \in 1..Len(pendingProject) :
             /\ pendingProject[i].handled /\ pendingProject[i].ok
             /\ pendingProject' = RemoveAt(pendingProject, i)
             /\ project' = pendingProject[i].resp ]_vars

\* The reload issued by a failed edit has brought back the server's project,
\* which is not the project as it was before the edit.
C19_Witness ==
  /\ lastOp = "loadProjectOk:revert"
  /\ project = srvProject
  /\ project # InitialProject
  /\ pendingPatches = <<>>

\* C21: the comments collection never holds two entries with the same id.
C21_CommentsNoDuplicates ==
  \A i, j \in 1..Len(comments) : i # j => comments[i].id # comments[j].id

\* C22: every comment in the sheet's collection belongs to the task the sheet
\* is open on, also after a comment:created event emitted to a room joined
\* earlier is delivered: the delivery of an event to a collection whose
\* comments all belong to the open task leaves it so.
C22_CommentsScopedToOpenTask ==
  [][ ( /\ lastOp' = "onCommentCreated"
        /\ \A i \in 1..Len(comments) : comments[i].task = selectedTask.id )
      => \A i \in 1..Len(comments') : comments'[i].task = selectedTask'.id ]_vars

\* C23: the success handler of a member removal removes only the targeted
\* member from the project state as it is when the handler runs, so a remote
\* change applied while the request was in flight is still there.
C23_RemovalKeepsRemoteChange ==
  [][ lastOp' = "removeMemberOk" =>
        \E i \in 1..Len(pendingMembers) :
          /\ pendingMembers[i].handled /\ pendingMembers[i].ok
          /\ pendingMembers' = RemoveAt(pendingMembers, i)
          /\ project # NoProject =>
               project' = [project EXCEPT !.members =
                   WithoutMember(project.members, pendingMembers[i].user)] ]_vars

\* C24: project.members never holds the same member id twice.
C24_MembersNoDuplicates ==
  \A i, j \in 1..Len(project.members) :
     i # j => project.members[i] # project.members[j]

\* A member:added event for a member the project already lists (the reload
\* after the local add had brought it) has been delivered.
C24_Witness ==
  /\ lastOp = "onMemberAdded:present"
  /\ pendingMembers = <<>>
  /\ Has(project.members, 2)
  /\ project = srvProject

\* C25: a task page load that fails leaves tasks, cursor and hasMore as they
\* were; it only clears the initial-loading flag.
C25_FailedLoadLeavesState ==
  [][ lastOp' = "loadTasksFail" =>
        /\ tasks' = tasks /\ cursor' = cursor /\ hasMore' = hasMore
        /\ ~isLoadingTasks'
        /\ selectedTask' = selectedTask /\ isSheetOpen' = isSheetOpen
        /\ locallyCreatedTaskIds' = locallyCreatedTaskIds ]_vars

\* A load-more request has failed on a page that shows tasks and has a cursor.
C25_Witness ==
  /\ lastOp = "loadTasksFail"
  /\ tasks # <<>>
  /\ cursor # NoCursor
  /\ hasMore

\* C26: the collection starts in Loading, leaves it when a first-page load
\* resolves, and is never Loading again.
C26_LoadingStateMachine ==
  /\ isLoadingTasks = TRUE
  /\ [][ /\ ~isLoadingTasks => ~isLoadingTasks'
         /\ (isLoadingTasks /\ ~isLoadingTasks') =>
               \E i \in 1..Len(pendingLoads) :
                 /\ pendingLoads[i].nextCursor = NoCursor
                 /\ pendingLoads' = RemoveAt(pendingLoads, i)
                 /\ lastOp' \in {"loadTasksOk", "loadTasksFail"} ]_vars

\* Ready, after a load-more response was appended to the first page.
C26_Witness ==
  /\ ~isLoadingTasks
  /\ lastOp = "loadTasksOk"
  /\ Len(tasks) > Limit
  /\ pendingLoads = <<>>

\* C27: a removal (the task:deleted event or the confirmed local delete) takes
\* every entry with the id out of the collection and keeps the others in
\* order; for an id that is absent, as on the second of two removals, the
\* collection is unchanged.
C27_DeleteIdempotent ==
  [][ \A x \in 1..(InitTasks + MaxEnvOps) :
        ( \/ /\ lastOp' \in {"onTaskDeleted", "onTaskDeleted:closed"}
             /\ socketQueue # <<>> /\ socketQueue' = Tail(socketQueue)
             /\ Head(socketQueue).task.id = x
          \/ /\ lastOp' = "handleTaskDeleted"
             /\ pendingDeletes # <<>> /\ pendingDeletes' = Tail(pendingDeletes)
             /\ Head(pendingDeletes).id = x )
        => /\ \A i \in 1..Len(tasks') : tasks'[i].id # x
           /\ Len(tasks') = Len(tasks) - Count(tasks, x)
           /\ (\A i \in 1..Len(tasks) : tasks[i].id # x) => tasks' = tasks
           /\ \A i, j \in 1..Len(tasks') : i < j =>
                \E k, l \in 1..Len(tasks) :
                   k < l /\ tasks[k] = tasks'[i] /\ tasks[l] = tasks'[j] ]_vars

\* The confirmed local delete has run after its echoed event had already
\* removed the task: the second removal found the id absent.
C27_Witness ==
  /\ lastOp = "handleTaskDeleted"
  /\ socketQueue = <<>>
  /\ pendingDeletes = <<>>
  /\ tasks # <<>>

\* C28: when no request is in flight and the filter shown is the one applied,
\* the projects displayed are the server's page number currentPage under that
\* filter, and every cursor recorded for reaching page k+1 is the cursor the
\* server returned with page k.
C28_PagedNavigation ==
  (navPending = <<>> /\ navFilters = navApplied) =>
     /\ navProjects = PageNumber(navApplied, currentPage).items
     /\ \A k \in 1..MaxPage :
          (k + 1 <= Len(cursorHistory) /\ cursorHistory[k + 1] # NoCursor
             /\ cursorHistory[k + 1] # Undef)
          => cursorHistory[k + 1] = PageNumber(navApplied, k).nextCursor

\* C29: when no search request is in flight and none is scheduled, the results
\* displayed are those of the query now in the input, or null if the query is
\* blank or the dialog closed.
C29_LatestQueryResults ==
  (gsPending = <<>> /\ gsTimer = 0) =>
     gsResults = (IF gsOpen THEN gsQuery ELSE 0)

\* C30: a socket is held only while the user is set, and a session-restore
\* profile response that arrives after logout() has removed the token does
\* not bring a socket back.
C30_SocketOnlyWhileAuthenticated ==
  /\ [](socket # 0 => user # 0)
  /\ [][ (lastOp' = "profileOk" /\ ~token) => socket' = 0 ]_vars

====
